---- MODULE Spec2Model ----
(***************************************************************************)
(* Model of the quantitative decision pipeline of tradeco-pilot:           *)
(*   StrategyExecutor        app/core/strategies/executor.py               *)
(*   SignalPipeline          app/core/signals/pipeline.py                  *)
(*   SignalScorer            app/core/scoring/signal_scorer.py             *)
(*   SignalQualityFilter     app/core/scoring/filter.py                    *)
(*   BayesianProbability     app/core/probability/bayesian.py              *)
(*   GeminiClient            app/core/intelligence/gemini_client.py        *)
(*   StrategyTriggerSystem   app/core/triggers/strategy_trigger.py         *)
(*                                                                         *)
(* Units.  Floats of the program are fixed-point integers here:            *)
(*   percentages (win rate, drawdown, probability)  1/100 of a percent     *)
(*   Sharpe ratio                                   1/10000                *)
(*   quality score                                  1/10 of a point        *)
(*   scorer factors                                 1/100000 of a point    *)
(*   prices                                         1/100000               *)
(*   likelihoods                                    1/1000                 *)
(* An optional value (Python None / missing key) is a sequence of length   *)
(* at most one: <<>> is None, <<v>> is the value v.                        *)
(***************************************************************************)
EXTENDS Integers, Sequences, FiniteSets, TLC

VARIABLES
    \* ---- StrategyExecutor harness (one evaluation of execute) ----
    ex_strategy,        \* the strategy dict handed to execute
    ex_tick,            \* the market_data dict handed to execute
    ex_result,          \* <<>> before the call / None, <<candidate>> otherwise
    ex_evaluated,       \* number of rules _evaluate_single_rule was called on
    ex_pc,              \* "ready" | "done"
    ex_history,         \* what the calls of execute made so far returned, in order
    \* ---- BacktestGate harness (one evaluation of _validate_backtest) ----
    gt_backtest,        \* the BacktestResult row handed to the gate
    gt_result,          \* <<>> before the call, <<TRUE>> / <<FALSE>> after
    \* ---- SignalQualityFilter harness (one evaluation of validate) ----
    fl_signal,          \* the signal dict handed to validate (None: no signal)
    fl_result,          \* <<>> before the call, <<TRUE>> / <<FALSE>> after
    \* ---- the database behind AsyncSessionLocal ----
    db_strategies,      \* ids of the rows of table strategies
    db_backtests,       \* strategy id -> latest BacktestResult row or None
    db_signals,         \* committed rows of table signals, in commit order
    \* ---- one SignalPipeline.generate_signal coroutine ----
    pl_pc,              \* position of the coroutine, see PipelinePositions
    pl_in,              \* the arguments of the call (None when idle)
    pl_backtest,        \* the loaded backtest row
    pl_probability,     \* probability_score, once computed
    pl_score,           \* signal_score, once computed
    pl_analysis,        \* gemini_analysis, once the enrichment call returned
    pl_result,          \* what generate_signal returned: None or signal_data
    pl_raised,          \* TRUE iff an exception left generate_signal
    pl_calls,           \* collaborators invoked by the current run
    pl_env,             \* what the collaborators did: load, enrich, store
    pl_db_before,       \* Len(db_signals) when the current run started
    pl_runs,            \* number of generate_signal calls so far
    \* ---- StrategyTriggerSystem ----
    active_strategies,  \* self.active_strategies, a list of strategy dicts
    running,            \* self.running
    subscribed,         \* _on_market_data is among market_data_engine.subscribers
    signals_generated,  \* self.signals_generated
    distributed,        \* the signals handed to signal_distributor.broadcast_signal
    tr_ticks,           \* number of candles delivered so far
    tr_pc,              \* "idle" | "distribute": position of _on_market_data
    tr_tick,            \* the candle _on_market_data is processing
    tr_idx,             \* index of the strategy whose signal is being distributed
    data_cache,         \* market_data_engine.data_cache: symbol -> latest candle or None
    \* ---- record of what the trigger system did ----
    tr_delivered,       \* per candle delivered: the candle, self.running and
                        \* len(self.active_strategies) at that moment
    tr_evals,           \* the calls of strategy_executor.execute, in order, as
                        \* <<number of the candle, index of the strategy>>
    tr_failed,          \* the <<candle, strategy>> pairs whose exception the loop caught
    dist_from,          \* per signal in distributed: <<candle, strategy>> it stems from
    tr_added,           \* the add_strategy calls that admitted their strategy
    \* ---- SignalDistributor and one broadcast_signal coroutine ----
    active_connections, \* self.active_connections, a set of websockets
    ever_connected,     \* the websockets connect was called with so far
    bc_pc,              \* "idle" | "send" | "done" | "raised"
    bc_cur,             \* the connection broadcast_signal is sending to
    bc_size,            \* size of the set when the iteration over it began
    bc_start,           \* the set when the iteration over it began
    bc_visited,         \* the connections the iteration has yielded
    bc_disconnected,    \* the local set disconnected
    bc_log,             \* the sends of this broadcast: <<connection, succeeded>>
    bc_left,            \* connections removed by disconnect outside broadcast_signal
    bc_count,           \* number of broadcast_signal calls so far
    \* ---- SignalScorer harness (one construction, one scoring call) ----
    sc_weights,         \* the weights argument: None, or a map factor -> weight
    sc_scorer,          \* None before; the scorer, or the exception raised
    sc_call,            \* None before; the arguments of calculate_signal_score
    sc_score,           \* None before; what calculate_signal_score returned or raised
    sc_rr_factor,       \* None before; what _calculate_risk_reward_factor returned
    \* ---- BayesianProbability harness (one calculate_posterior_probability) ----
    by_call,            \* None before; the arguments of the call
    by_result,          \* None before; the posterior returned, in 1/10000 of a percent
    \* ---- MonteCarloSimulator: one simulate_strategy_performance ----
    mc_in,              \* the arguments win_rate, avg_win, avg_loss
    mc_pc,              \* "ready" | "trade" | "done"
    mc_capital,         \* capital of the sequence being simulated, in 1/100
    mc_trade,           \* number of trades of that sequence so far
    mc_finals,          \* final_capitals, one entry per finished sequence
    mc_result,          \* None before; the dict returned
    \* ---- SignalPipeline._calculate_probability on that simulation ----
    pr_market,          \* None before; <<market_data>> of the call
    pr_bayes,           \* None before; bayesian_prob, in 1/10000 of a percent
    pr_probability,     \* None before; the value returned, in 1/100 of a percent
    \* ---- wall clock read by datetime.utcnow() ----
    utc_hour,           \* the hour of the day
    utc_second          \* the seconds that have passed in that hour

exec_vars == <<ex_strategy, ex_tick, ex_result, ex_evaluated, ex_pc, ex_history>>
gate_vars == <<gt_backtest, gt_result, fl_signal, fl_result>>
db_vars == <<db_strategies, db_backtests, db_signals>>
pipe_vars == <<pl_pc, pl_in, pl_backtest, pl_probability, pl_score, pl_analysis,
               pl_result, pl_raised, pl_calls, pl_env, pl_db_before, pl_runs>>
trig_vars == <<active_strategies, running, subscribed, signals_generated, distributed,
               tr_ticks, tr_pc, tr_tick, tr_idx,
               data_cache, tr_delivered, tr_evals, tr_failed, dist_from, tr_added>>
dist_vars == <<active_connections, ever_connected, bc_pc, bc_cur, bc_size, bc_start,
               bc_visited, bc_disconnected, bc_log, bc_left, bc_count>>
scorer_vars == <<sc_weights, sc_scorer, sc_call, sc_score, sc_rr_factor>>
prob_vars == <<by_call, by_result, mc_in, mc_pc, mc_capital, mc_trade, mc_finals, mc_result,
               pr_market, pr_bayes, pr_probability>>
aux_vars == <<dist_vars, scorer_vars, prob_vars>>
vars == <<exec_vars, gate_vars, db_vars, pipe_vars, trig_vars, aux_vars, utc_hour, utc_second>>

----------------------------------------------------------------------------
(* Bounds of the model *)

MaxRules == 2
MaxCalls == 2
MaxClients == 3
MaxBroadcasts == 1
MaxSimulations == 2
MaxTrades == 3
MaxSeconds == 1
MaxRuns == 1
MaxStrategies == 2
MaxTicks == 2

----------------------------------------------------------------------------
(* Settings, app/config.py *)

MIN_SIGNAL_SCORE == 70
MIN_PROBABILITY == 6000
MIN_BACKTEST_TRADES == 100
MIN_WIN_RATE == 5500
MIN_SHARPE_RATIO == 15000
MAX_DRAWDOWN == 2000

----------------------------------------------------------------------------
(* Optional values *)

None == <<>>
Some(v) == <<v>>
IsNone(o) == o = <<>>
Val(o) == o[1]

Abs(x) == IF x < 0 THEN -x ELSE x
Min(a, b) == IF a < b THEN a ELSE b
Max(a, b) == IF a > b THEN a ELSE b

----------------------------------------------------------------------------
(* Input samples *)

\* hours of the day at which datetime.utcnow() is read: asia only, asia and
\* london, london and new_york, no session
Hours == {3, 8, 14, 23}

NoParams == [threshold |-> None, period |-> None]

Rule(t, c) == [type |-> t, condition |-> c, parameters |-> NoParams]

RuleSamples ==
    { Rule("price_action", "liquidity_sweep"),
      Rule("price_action", "breakout"),
      Rule("technical", "rsi_oversold"),
      [type |-> "technical", condition |-> "rsi_overbought",
       parameters |-> [threshold |-> Some(80), period |-> None]],
      Rule("technical", "above_ema"),
      Rule("technical", "macd_cross"),
      Rule("session", "london"),
      Rule("session", "london_session"),
      Rule("volume", "spike") }

RECURSIVE SeqsUpTo(_, _)
SeqsUpTo(S, n) ==
    IF n = 0 THEN {<<>>}
    ELSE LET shorter == SeqsUpTo(S, n - 1)
         IN shorter \cup {Append(q, x) : q \in {r \in shorter : Len(r) = n - 1}, x \in S}

RuleLists == SeqsUpTo(RuleSamples, MaxRules)

\* is_active: True, False, or the key is absent
ActiveFlags == {Some(TRUE), Some(FALSE), None}

\* risk_management: distances in pips, or the keys are absent
RiskSamples ==
    { [stop_loss_pips |-> Some(20), take_profit_pips |-> Some(40)],
      [stop_loss_pips |-> Some(50), take_profit_pips |-> Some(10)],
      [stop_loss_pips |-> None, take_profit_pips |-> None] }

Strategy(id, name, rules, cfgrules, active, risk) ==
    [id |-> id, name |-> name, rules |-> rules,
     config |-> [rules |-> cfgrules, risk_management |-> risk],
     is_active |-> active]

ExecStrategies ==
    { Strategy("s1", "rsi", rl, rl, a, r) : rl \in RuleLists, a \in ActiveFlags, r \in RiskSamples }

Tick(sym, close, closed, rsi, ema) ==
    [symbol |-> sym, close |-> close, is_closed |-> closed,
     indicators |-> [rsi |-> rsi, ema_200 |-> ema]]

\* EURUSD closing at 1.10000, USDJPY closing at 150.000
Quotes == { <<"EURUSD", 110000>>, <<"USDJPY", 15000000>> }

ExecTicks ==
    { Tick(q[1], q[2], TRUE, rsi, ema) :
        q \in Quotes,
        rsi \in {None, Some(25), Some(85)},
        ema \in {None, Some(109000), Some(111000)} }

----------------------------------------------------------------------------
(* StrategyExecutor *)

\* _check_rsi
_check_rsi(data, params, mode) ==
    LET rsi == data.indicators.rsi
        threshold == IF IsNone(params.threshold)
                     THEN (IF mode = "oversold" THEN 30 ELSE 70)
                     ELSE Val(params.threshold)
    IN IF IsNone(rsi) THEN FALSE
       ELSE IF mode = "oversold" THEN Val(rsi) < threshold
       ELSE Val(rsi) > threshold

\* _check_above_ema (only the default period 200 carries an indicator here)
_check_above_ema(data, params) ==
    LET price == data.close
        ema == IF IsNone(params.period) \/ params.period = Some(200)
               THEN data.indicators.ema_200 ELSE None
    IN IF IsNone(ema) THEN FALSE ELSE price > Val(ema)

\* _check_liquidity_sweep: placeholder in the source, always true
_check_liquidity_sweep(data, params) == TRUE

\* _check_order_block: placeholder in the source, always true
_check_order_block(data, params) == TRUE

\* the sessions table of _check_session: name -> (start, end)
sessions ==
    [london |-> <<7, 16>>, new_york |-> <<13, 22>>, asia |-> <<0, 9>>]

\* _check_session; hour is datetime.utcnow().hour
_check_session(data, session_name, hour) ==
    IF session_name \notin DOMAIN sessions THEN TRUE
    ELSE sessions[session_name][1] <= hour /\ hour < sessions[session_name][2]

\* _evaluate_single_rule
_evaluate_single_rule(rule, market_data, hour) ==
    LET rule_type == rule.type
        condition == rule.condition
        params == rule.parameters
    IN CASE rule_type = "price_action" ->
              (CASE condition = "liquidity_sweep" -> _check_liquidity_sweep(market_data, params)
                 [] condition = "order_block" -> _check_order_block(market_data, params)
                 [] OTHER -> FALSE)
         [] rule_type = "technical" ->
              (CASE condition = "rsi_oversold" -> _check_rsi(market_data, params, "oversold")
                 [] condition = "rsi_overbought" -> _check_rsi(market_data, params, "overbought")
                 [] condition = "above_ema" -> _check_above_ema(market_data, params)
                 [] OTHER -> FALSE)
         [] rule_type = "session" -> _check_session(market_data, condition, hour)
         [] OTHER -> FALSE

\* number of rules the loop of _evaluate_rules calls _evaluate_single_rule
\* on, scanning from index i: it stops after the first rule that fails
RECURSIVE RulesScanned(_, _, _, _)
RulesScanned(rules, market_data, hour, i) ==
    IF i > Len(rules) THEN 0
    ELSE IF ~_evaluate_single_rule(rules[i], market_data, hour) THEN 1
    ELSE 1 + RulesScanned(rules, market_data, hour, i + 1)

\* variant: without the guard on the empty list
_evaluate_rules_EmptyMatches(rules, market_data, hour) ==
    \A i \in 1..Len(rules) : _evaluate_single_rule(rules[i], market_data, hour)

\* _evaluate_rules: empty list is False, otherwise AND over the rules
_evaluate_rules(rules, market_data, hour) ==
    IF Len(rules) = 0 THEN FALSE
    ELSE \A i \in 1..Len(rules) : _evaluate_single_rule(rules[i], market_data, hour)

\* pip size in price units: 0.0001, or 0.01 for symbols containing 'JPY'
IsJPY(symbol) == symbol \in {"USDJPY", "EURJPY"}

\* variant: one pip size for every symbol
pip_value_Flat(symbol) == 10

pip_value(symbol) == IF IsJPY(symbol) THEN 1000 ELSE 10

\* StrategyExecutor._generate_signal: direction is always "BUY".  Prices are
\* multiples of 0.00001, so round(_, 5) gives back the exact sum; created_at
\* is the reading of the clock, here to the hour
ExecGenerateSignal(strategy, market_data, hour) ==
    LET symbol == market_data.symbol
        price == market_data.close
        risk_config == strategy.config.risk_management
        sl_pips == IF IsNone(risk_config.stop_loss_pips) THEN 20 ELSE Val(risk_config.stop_loss_pips)
        tp_pips == IF IsNone(risk_config.take_profit_pips) THEN 40 ELSE Val(risk_config.take_profit_pips)
        direction == "BUY"
    IN [strategy_id |-> strategy.id,
        symbol |-> symbol,
        direction |-> direction,
        entry_price |-> price,
        stop_loss |-> IF direction = "BUY" THEN price - sl_pips * pip_value(symbol)
                                           ELSE price + sl_pips * pip_value(symbol),
        take_profit |-> IF direction = "BUY" THEN price + tp_pips * pip_value(symbol)
                                             ELSE price - tp_pips * pip_value(symbol),
        status |-> "active",
        created_at |-> hour]

\* variant: the is_active flag is not consulted
IsActive_Ignored(strategy) == TRUE

\* strategy.get('is_active', True)
IsActive(strategy) == IF IsNone(strategy.is_active) THEN TRUE ELSE Val(strategy.is_active)

\* StrategyExecutor.execute: None or the candidate
execute(strategy, market_data, hour) ==
    IF ~IsActive(strategy) THEN None
    ELSE IF ~_evaluate_rules(strategy.config.rules, market_data, hour) THEN None
    ELSE Some(ExecGenerateSignal(strategy, market_data, hour))

\* how many rules one call of execute evaluates
ExecRulesEvaluated(strategy, market_data, hour) ==
    IF ~IsActive(strategy) THEN 0
    ELSE RulesScanned(strategy.config.rules, market_data, hour, 1)

----------------------------------------------------------------------------
(* Fixed-point arithmetic *)

\* floor(a * 10^k / d) by long division, for a >= 0 and d > 0
RECURSIVE MulDivPow10(_, _, _)
MulDivPow10(a, k, d) ==
    IF k = 0 THEN a \div d
    ELSE (a \div d) * 10^k + MulDivPow10((a % d) * 10, k - 1, d)

\* round(n / d) to the nearest integer, for n >= 0 and d > 0
RoundDiv(n, d) == (2 * n + d) \div (2 * d)

Clamp(lo, hi, x) == Max(lo, Min(hi, x))

----------------------------------------------------------------------------
(* BayesianProbability, app/core/probability/bayesian.py *)

\* historical_performance.get(f"{regime}_{outcome}_rate", 0.5), in 1/100
RegimeStats(historical_performance, regime, outcome) ==
    IF <<regime, outcome>> \in DOMAIN historical_performance.rates
    THEN historical_performance.rates[<<regime, outcome>>]
    ELSE 50

\* current_conditions.get(key, default) for the keys regime and volatility
CondRegime(current_conditions) ==
    IF IsNone(current_conditions) \/ IsNone(Val(current_conditions).regime)
    THEN "unknown" ELSE Val(Val(current_conditions).regime)

CondVolatility(current_conditions) ==
    IF IsNone(current_conditions) \/ IsNone(Val(current_conditions).volatility)
    THEN "normal" ELSE Val(Val(current_conditions).volatility)

\* _calculate_likelihood, in 1/1000: x1.2 on a volatility match, x0.8
\* otherwise, clamped to [0.1, 0.9]
_calculate_likelihood(current_conditions, historical_performance, outcome) ==
    LET regime_stats == RegimeStats(historical_performance, CondRegime(current_conditions), outcome)
        likelihood == IF CondVolatility(current_conditions) = historical_performance.optimal_volatility
                      THEN regime_stats * 12
                      ELSE regime_stats * 8
    IN Clamp(100, 900, likelihood)

\* calculate_posterior_probability, result in 1/10000 of a percent;
\* prior_win_rate in 1/100 of a percent
calculate_posterior_probability(prior_win_rate, current_conditions, historical_performance) ==
    LET ls == _calculate_likelihood(current_conditions, historical_performance, "success")
        lf == _calculate_likelihood(current_conditions, historical_performance, "failure")
        num == ls * prior_win_rate
        p_conditions == ls * prior_win_rate + lf * (10000 - prior_win_rate)
    IN IF p_conditions = 0 THEN prior_win_rate * 100
       ELSE Clamp(0, 1000000, MulDivPow10(num, 6, p_conditions))

\* a current_conditions argument that is no dict: .get on it raises
NotADict == Some([regime |-> None, volatility |-> None, malformed |-> TRUE])

IsDict(current_conditions) ==
    IsNone(current_conditions) \/ "malformed" \notin DOMAIN Val(current_conditions)

\* the except clause of calculate_posterior_probability: the prior
OnBayesException(prior_win_rate) == prior_win_rate * 100

\* calculate_posterior_probability with its try / except
TryPosterior(prior_win_rate, current_conditions, historical_performance) ==
    IF IsDict(current_conditions)
    THEN calculate_posterior_probability(prior_win_rate, current_conditions,
                                         historical_performance)
    ELSE OnBayesException(prior_win_rate)

\* historical_performance dicts: the success rate of the regime trending,
\* its failure rate (None: the key is absent), in 1/100
Historical(success, failure) ==
    [rates |-> IF IsNone(failure) THEN (<<"trending", "success">> :> success)
               ELSE (<<"trending", "success">> :> success)
                    @@ (<<"trending", "failure">> :> Val(failure)),
     optimal_volatility |-> "normal"]

\* arguments of calculate_posterior_probability: priors 0, 0.01, 30, 60,
\* 99.99 and 100 percent
BayesCalls ==
    [prior_win_rate : {0, 1, 3000, 6000, 9999, 10000},
     current_conditions : {Some([regime |-> Some("trending"), volatility |-> Some("normal")]),
                           Some([regime |-> Some("trending"), volatility |-> Some("high")]),
                           Some([regime |-> Some("ranging"), volatility |-> None]),
                           NotADict},
     historical_performance : {Historical(sr, fr) : sr \in {40, 70, 90, 100},
                                                    fr \in {None, Some(30), Some(60)}}]

\* initial_capital of simulate_strategy_performance, 10000.0 in 1/100
initial_capital == 1000000

McIdle ==
    /\ mc_pc = "ready"
    /\ mc_capital = initial_capital
    /\ mc_trade = 0
    /\ mc_finals = <<>>
    /\ mc_result = None
    /\ pr_market = None
    /\ pr_bayes = None
    /\ pr_probability = None

ProbIdle ==
    /\ by_call = None
    /\ by_result = None
    /\ mc_in = [win_rate |-> Some(6000), avg_win |-> 5, avg_loss |-> -2]
    /\ McIdle

\* bayesian_engine.calculate_posterior_probability(...) is called
ByCall ==
    /\ IsNone(by_call)
    /\ \E call \in BayesCalls :
          /\ by_call' = Some(call)
          /\ by_result' = Some(TryPosterior(call.prior_win_rate, call.current_conditions,
                                            call.historical_performance))
    /\ UNCHANGED <<mc_in, mc_pc, mc_capital, mc_trade, mc_finals, mc_result,
                   pr_market, pr_bayes, pr_probability>>

----------------------------------------------------------------------------
(* SignalScorer, app/core/scoring/signal_scorer.py; factors in 1/100000 *)

\* SignalScorer.WEIGHTS, in 1/1000
WEIGHTS ==
    [probability_score |-> 350, backtest_performance |-> 250,
     market_regime_match |-> 200, risk_reward_ratio |-> 150,
     volatility_match |-> 50]

\* _calculate_performance_factor
_calculate_performance_factor(metrics) ==
    LET win_component == metrics.win_rate * 100
        sharpe_component == (Min(metrics.sharpe_ratio, 30000) * 100) \div 3
    IN Clamp(0, 1000000, (win_component + sharpe_component) \div 2)

\* _calculate_regime_factor: regime_performance.get(current_regime, 50.0)
_calculate_regime_factor(current_regime, regime_performance) ==
    LET regime_win_rate == IF current_regime \in DOMAIN regime_performance
                           THEN regime_performance[current_regime] ELSE 5000
    IN Clamp(0, 1000000, regime_win_rate * 100)

\* variant: the middle segment starts at 7.5
_calculate_risk_reward_factor_Jump(rr) ==
    LET a == rr[1]
        b == rr[2]
    IN IF a >= 3 * b THEN 1000000
       ELSE IF a >= 2 * b THEN 750000 + MulDivPow10(3 * (a - 2 * b), 5, b)
       ELSE IF a >= b THEN 300000 + MulDivPow10(4 * (a - b), 5, b)
       ELSE Max(0, MulDivPow10(3 * a, 5, b))

\* _calculate_risk_reward_factor; the ratio is the fraction rr[1] / rr[2]
_calculate_risk_reward_factor(rr) ==
    LET a == rr[1]
        b == rr[2]
    IN IF a >= 3 * b THEN 1000000
       ELSE IF a >= 2 * b THEN 700000 + MulDivPow10(3 * (a - 2 * b), 5, b)
       ELSE IF a >= b THEN 300000 + MulDivPow10(4 * (a - b), 5, b)
       ELSE Max(0, MulDivPow10(3 * a, 5, b))

\* volatility_scale.get(level, 3)
volatility_scale(level) ==
    CASE level = "very_low" -> 1
      [] level = "low" -> 2
      [] level = "normal" -> 3
      [] level = "high" -> 4
      [] level = "very_high" -> 5
      [] OTHER -> 3

\* _calculate_volatility_factor
_calculate_volatility_factor(current, optimal) ==
    LET difference == Abs(volatility_scale(current) - volatility_scale(optimal))
    IN IF difference = 0 THEN 1000000
       ELSE IF difference = 1 THEN 700000
       ELSE IF difference = 2 THEN 500000
       ELSE 300000

\* the weighted sum of calculate_signal_score in thousands (floor) of its
\* unit 10^-8: the products are summed in two parts, the thousands of
\* the factors and the rest, to stay within 32 bits
WeightedSumThousands(weights, prob_factor, perf_factor, regime_factor, rr_factor, vol_factor) ==
    LET hi == (prob_factor \div 1000) * weights.probability_score
              + (perf_factor \div 1000) * weights.backtest_performance
              + (regime_factor \div 1000) * weights.market_regime_match
              + (rr_factor \div 1000) * weights.risk_reward_ratio
              + (vol_factor \div 1000) * weights.volatility_match
        lo == (prob_factor % 1000) * weights.probability_score
              + (perf_factor % 1000) * weights.backtest_performance
              + (regime_factor % 1000) * weights.market_regime_match
              + (rr_factor % 1000) * weights.risk_reward_ratio
              + (vol_factor % 1000) * weights.volatility_match
    IN [thousands |-> hi + (lo \div 1000), rest |-> lo % 1000]

\* variant: the weighted sum is rounded as it is
WeightedScore_Unclamped(weights, prob_factor, perf_factor, regime_factor, rr_factor, vol_factor) ==
    LET score == WeightedSumThousands(weights, prob_factor, perf_factor, regime_factor,
                                      rr_factor, vol_factor)
    IN RoundDiv(score.thousands, 10000)

\* the weighted sum of calculate_signal_score, clamped to [0, 10] and
\* rounded to one decimal; result in 1/10 of a point
WeightedScore(weights, prob_factor, perf_factor, regime_factor, rr_factor, vol_factor) ==
    LET score == WeightedSumThousands(weights, prob_factor, perf_factor, regime_factor,
                                      rr_factor, vol_factor)
        final_score == IF score.thousands >= 1000000 THEN 1000000000
                       ELSE IF score.thousands < 0 THEN 0
                       ELSE score.thousands * 1000 + score.rest
    IN RoundDiv(final_score, 10000000)

\* calculate_signal_score with the weights of the instance; probability in
\* 1/100 of a percent, result in 1/10 of a point
calculate_signal_score(weights, probability_score, backtest_metrics, market_regime, strategy_regime_performance, risk_reward_ratio, current_volatility, optimal_volatility) ==
    WeightedScore(weights,
                  probability_score * 100,
                  _calculate_performance_factor(backtest_metrics),
                  _calculate_regime_factor(market_regime, strategy_regime_performance),
                  _calculate_risk_reward_factor(risk_reward_ratio),
                  _calculate_volatility_factor(current_volatility, optimal_volatility))

----------------------------------------------------------------------------
(* SignalQualityFilter, app/core/scoring/filter.py *)

\* the defaults of SignalQualityFilter.__init__
signal_filter == [min_score |-> 70, min_probability |-> 6500]

\* SignalQualityFilter.validate
validate(filter, signal) ==
    IF IsNone(signal) THEN FALSE
    ELSE /\ Val(signal).signal_score >= filter.min_score
         /\ Val(signal).probability_score >= filter.min_probability

----------------------------------------------------------------------------
(* GeminiClient, app/core/intelligence/gemini_client.py *)

\* _default_response
_default_response ==
    [confidence_level |-> "Low", risk_rating |-> "High",
     trade_explanation |-> "AI analysis unavailable - manual review required",
     position_sizing |-> 100]

\* what the call of model.generate_content can do when it comes back:
\* answer with JSON that parses, answer with text that does not, or raise
EnrichOutcomes ==
    { [kind |-> "ok", analysis |-> [confidence_level |-> Some("High"), risk_rating |-> Some("Low"),
                                     trade_explanation |-> Some("setup valid"),
                                     position_sizing |-> Some(200)]],
      [kind |-> "ok", analysis |-> [confidence_level |-> None, risk_rating |-> None,
                                     trade_explanation |-> None,
                                     position_sizing |-> None]],
      [kind |-> "unparsable", analysis |-> None],
      [kind |-> "exception", analysis |-> None] }

OrDefault(o, d) == IF IsNone(o) THEN d ELSE Val(o)

\* analyze_signal_context, from the point where generate_content came back
analyze_signal_context(outcome) ==
    IF outcome.kind = "ok"
    THEN [confidence_level |-> OrDefault(outcome.analysis.confidence_level, "Medium"),
          risk_rating |-> OrDefault(outcome.analysis.risk_rating, "Medium"),
          trade_explanation |-> OrDefault(outcome.analysis.trade_explanation, ""),
          position_sizing |-> OrDefault(outcome.analysis.position_sizing, 200)]
    ELSE _default_response

----------------------------------------------------------------------------
(* SignalPipeline, app/core/signals/pipeline.py *)

StrategyIds == {"s1", "s2", "s9"}

Backtest(trades, win, sharpe, dd) ==
    [total_trades |-> trades, win_rate |-> win, sharpe_ratio |-> sharpe,
     max_drawdown |-> dd, profit_factor |-> 18000]

\* variant: the trade-count bound is exclusive
_validate_backtest_ExclusiveTrades(backtest) ==
    /\ backtest.total_trades > MIN_BACKTEST_TRADES
    /\ backtest.win_rate >= MIN_WIN_RATE
    /\ backtest.sharpe_ratio >= MIN_SHARPE_RATIO
    /\ backtest.max_drawdown <= MAX_DRAWDOWN

\* _validate_backtest
_validate_backtest(backtest) ==
    IF backtest.total_trades < MIN_BACKTEST_TRADES THEN FALSE
    ELSE IF backtest.win_rate < MIN_WIN_RATE THEN FALSE
    ELSE IF backtest.sharpe_ratio < MIN_SHARPE_RATIO THEN FALSE
    ELSE IF backtest.max_drawdown > MAX_DRAWDOWN THEN FALSE
    ELSE TRUE

\* the historical_performance placeholder of _calculate_probability
historical_performance ==
    [rates |-> (<<"trending", "success">> :> 70) @@ (<<"ranging", "success">> :> 50),
     optimal_volatility |-> "normal"]

\* profit probabilities simulate_strategy_performance can report, in 1/100
\* of a percent: the outcome of its random draws, 50.0 on its error path
McProfitProbabilities == {0, 5000, 10000}

\* variant: 40% posterior, 60% simulation
CombineProbabilities_Swapped(bayesian_prob, mc_prob) ==
    RoundDiv(4 * bayesian_prob + 600 * mc_prob, 1000)

\* round(bayesian_prob * 0.6 + mc_prob * 0.4, 2)
CombineProbabilities(bayesian_prob, mc_prob) ==
    RoundDiv(6 * bayesian_prob + 400 * mc_prob, 1000)

\* _calculate_probability: round(0.6 * bayesian + 0.4 * mc, 2)
_calculate_probability(backtest, market_data, mc_prob) ==
    LET bayesian_prob == TryPosterior(backtest.win_rate, market_data, historical_performance)
    IN CombineProbabilities(bayesian_prob, mc_prob)

\* the regime_performance placeholder of _calculate_signal_score
regime_performance ==
    [trending |-> 6500, ranging |-> 5500, unknown |-> 5000]

\* _calculate_signal_score
_calculate_signal_score(probability, backtest, market_data, risk_reward) ==
    calculate_signal_score(WEIGHTS, probability,
                           [win_rate |-> backtest.win_rate, sharpe_ratio |-> backtest.sharpe_ratio],
                           CondRegime(market_data), regime_performance, risk_reward,
                           "normal", "normal")

\* risk_reward_ratio of generate_signal, as a fraction
RiskReward(entry_price, stop_loss, take_profit) ==
    IF entry_price # stop_loss
    THEN <<Abs(take_profit - entry_price), Abs(entry_price - stop_loss)>>
    ELSE <<0, 1>>

\* variant: the probability threshold is not applied
BelowThreshold_ScoreOnly(signal_score, probability_score) ==
    signal_score < MIN_SIGNAL_SCORE

\* Step 5 of generate_signal: TRUE iff the candidate is rejected
BelowThreshold(signal_score, probability_score) ==
    IF signal_score < MIN_SIGNAL_SCORE THEN TRUE
    ELSE IF probability_score < MIN_PROBABILITY THEN TRUE
    ELSE FALSE

\* settings.SIGNAL_EXPIRY_HOURS
SIGNAL_EXPIRY_HOURS == 24

\* Step 8 of generate_signal: signal_data; expires_at in hours, counted
\* from the start of the day of the call
SignalData(in, probability_score, signal_score, gemini_analysis) ==
    [strategy_id |-> in.strategy_id,
     symbol |-> in.symbol,
     direction |-> in.direction,
     entry_price |-> in.entry_price,
     stop_loss |-> in.stop_loss,
     take_profit |-> in.take_profit,
     probability_score |-> probability_score,
     signal_score |-> signal_score,
     confidence_level |-> gemini_analysis.confidence_level,
     risk_rating |-> gemini_analysis.risk_rating,
     trade_explanation |-> gemini_analysis.trade_explanation,
     position_sizing |-> gemini_analysis.position_sizing,
     status |-> "active",
     expires_at |-> utc_hour + SIGNAL_EXPIRY_HOURS]

\* the except clause of generate_signal: log and return None
OnException == [pc |-> "REJECTED", raised |-> FALSE]

PipelinePositions ==
    {"idle", "load_strategy", "load_backtest", "enrich", "commit", "refresh",
     "ACCEPTED", "REJECTED"}

NoEnv == [load |-> "none", gate |-> None, enrich |-> "none", store |-> "none"]

MarketSamples ==
    { None,
      Some([regime |-> Some("trending"), volatility |-> None]),
      Some([regime |-> Some("ranging"), volatility |-> Some("high")]) }

\* (entry, stop, target): reward/risk 2, 3 and entry = stop
PriceSamples == { <<110000, 109800, 110400>>, <<110000, 109800, 110600>>,
                  <<110000, 110000, 110400>> }

PipelineInputs ==
    { [strategy_id |-> id, symbol |-> "EURUSD", direction |-> "BUY",
       entry_price |-> p[1], stop_loss |-> p[2], take_profit |-> p[3],
       market_data |-> m] : id \in StrategyIds, p \in PriceSamples, m \in MarketSamples }

\* latest backtest rows: passes the gate comfortably, passes it with a high
\* win rate and Sharpe, passes it exactly on every bound, fails on trades
BacktestSamples ==
    { Backtest(150, 6500, 20000, 1000), Backtest(150, 9000, 30000, 1000),
      Backtest(100, 5500, 15000, 2000), Backtest(99, 6500, 20000, 1000) }

PipeIdle ==
    /\ pl_pc = "idle"
    /\ pl_in = None
    /\ pl_backtest = None
    /\ pl_probability = None
    /\ pl_score = None
    /\ pl_analysis = None
    /\ pl_result = None
    /\ pl_raised = FALSE
    /\ pl_calls = {}
    /\ pl_env = NoEnv
    /\ pl_db_before = 0
    /\ pl_runs = 0

DbIdle ==
    /\ db_strategies = {"s1", "s2"}
    /\ db_backtests = [id \in StrategyIds |->
                          IF id = "s1" THEN Some(Backtest(150, 6500, 20000, 1000)) ELSE None]
    /\ db_signals = <<>>

DbInit ==
    /\ db_strategies = {"s1", "s2"}
    /\ \E b \in BacktestSamples :
          db_backtests = [id \in StrategyIds |-> IF id = "s1" THEN Some(b) ELSE None]
    /\ db_signals = <<>>

\* a caller awaits generate_signal(...)
PlInvoke ==
    /\ pl_pc = "idle"
    /\ pl_runs < MaxRuns
    /\ \E in \in PipelineInputs : pl_in' = Some(in)
    /\ pl_pc' = "load_strategy"
    /\ pl_backtest' = None
    /\ pl_probability' = None
    /\ pl_score' = None
    /\ pl_analysis' = None
    /\ pl_result' = None
    /\ pl_raised' = FALSE
    /\ pl_calls' = {}
    /\ pl_env' = NoEnv
    /\ pl_db_before' = Len(db_signals)
    /\ pl_runs' = pl_runs + 1
    /\ UNCHANGED db_vars

\* variant: the coroutine ends by letting an exception out
PlEnd_Raises(pc, raised, env) ==
    /\ pl_pc' = pc
    /\ pl_result' = None
    /\ pl_raised' = TRUE
    /\ pl_env' = env

\* the coroutine ends without a signal at position pc
PlEnd(pc, raised, env) ==
    /\ pl_pc' = pc
    /\ pl_result' = None
    /\ pl_raised' = raised
    /\ pl_env' = env

\* Step 1, first await: _get_strategy
PlLoadStrategy ==
    /\ pl_pc = "load_strategy"
    /\ \E db_ok \in BOOLEAN :
          IF ~db_ok
          THEN PlEnd(OnException.pc, OnException.raised, [pl_env EXCEPT !.load = "error"])
          ELSE IF Val(pl_in).strategy_id \notin db_strategies
          THEN PlEnd("REJECTED", FALSE, [pl_env EXCEPT !.load = "missing_strategy"])
          ELSE /\ pl_pc' = "load_backtest"
               /\ UNCHANGED <<pl_result, pl_raised, pl_env>>
    /\ UNCHANGED <<pl_in, pl_backtest, pl_probability, pl_score, pl_analysis,
                   pl_calls, pl_db_before, pl_runs>>
    /\ UNCHANGED db_vars

\* Step 1, second await: _get_latest_backtest; then steps 2 to 6 run without
\* suspension up to the call of the enrichment service
PlLoadBacktest ==
    /\ pl_pc = "load_backtest"
    /\ \E db_ok \in BOOLEAN, mc_prob \in McProfitProbabilities :
          LET in == Val(pl_in)
              row == db_backtests[in.strategy_id]
              probability_score == _calculate_probability(Val(row), in.market_data, mc_prob)
              signal_score == _calculate_signal_score(probability_score, Val(row), in.market_data,
                                  RiskReward(in.entry_price, in.stop_loss, in.take_profit))
          IN IF ~db_ok
             THEN /\ PlEnd(OnException.pc, OnException.raised, [pl_env EXCEPT !.load = "error"])
                  /\ UNCHANGED <<pl_backtest, pl_probability, pl_score, pl_calls>>
             ELSE IF IsNone(row)
             THEN /\ PlEnd("REJECTED", FALSE, [pl_env EXCEPT !.load = "missing_backtest"])
                  /\ UNCHANGED <<pl_backtest, pl_probability, pl_score, pl_calls>>
             ELSE IF ~_validate_backtest(Val(row))
             THEN /\ PlEnd("REJECTED", FALSE, [pl_env EXCEPT !.load = "ok", !.gate = Some(FALSE)])
                  /\ pl_backtest' = row
                  /\ UNCHANGED <<pl_probability, pl_score, pl_calls>>
             ELSE /\ pl_backtest' = row
                  /\ pl_probability' = Some(probability_score)
                  /\ pl_score' = Some(signal_score)
                  /\ IF BelowThreshold(signal_score, probability_score)
                     THEN /\ PlEnd("REJECTED", FALSE, [pl_env EXCEPT !.load = "ok", !.gate = Some(TRUE)])
                          /\ pl_calls' = {"probability", "scorer"}
                     ELSE /\ pl_pc' = "enrich"
                          /\ pl_env' = [pl_env EXCEPT !.load = "ok", !.gate = Some(TRUE)]
                          /\ pl_calls' = {"probability", "scorer", "enrichment"}
                          /\ UNCHANGED <<pl_result, pl_raised>>
    /\ UNCHANGED <<pl_in, pl_analysis, pl_db_before, pl_runs>>
    /\ UNCHANGED db_vars

\* Step 7: model.generate_content comes back (the call is blocking and is
\* given no timeout); step 8 assembles signal_data, step 9 adds the row
PlEnrichReturn ==
    /\ pl_pc = "enrich"
    /\ \E outcome \in EnrichOutcomes :
          /\ pl_analysis' = Some(analyze_signal_context(outcome))
          /\ pl_env' = [pl_env EXCEPT !.enrich = outcome.kind]
    /\ pl_pc' = "commit"
    /\ pl_calls' = pl_calls \cup {"store"}
    /\ UNCHANGED <<pl_in, pl_backtest, pl_probability, pl_score, pl_result, pl_raised,
                   pl_db_before, pl_runs>>
    /\ UNCHANGED db_vars

\* Step 9: await db.commit()
PlCommit ==
    /\ pl_pc = "commit"
    /\ \E db_ok \in BOOLEAN :
          IF db_ok
          THEN /\ db_signals' = Append(db_signals,
                     SignalData(Val(pl_in), Val(pl_probability), Val(pl_score), Val(pl_analysis)))
               /\ pl_pc' = "refresh"
               /\ pl_env' = [pl_env EXCEPT !.store = "ok"]
               /\ UNCHANGED <<pl_result, pl_raised>>
          ELSE /\ PlEnd(OnException.pc, OnException.raised, [pl_env EXCEPT !.store = "commit_failed"])
               /\ UNCHANGED db_signals
    /\ UNCHANGED <<pl_in, pl_backtest, pl_probability, pl_score, pl_analysis, pl_calls,
                   pl_db_before, pl_runs>>
    /\ UNCHANGED <<db_strategies, db_backtests>>

\* Step 9: await db.refresh(signal), then return signal_data
PlRefresh ==
    /\ pl_pc = "refresh"
    /\ \E db_ok \in BOOLEAN :
          IF db_ok
          THEN /\ pl_pc' = "ACCEPTED"
               /\ pl_result' = Some(SignalData(Val(pl_in), Val(pl_probability), Val(pl_score),
                                               Val(pl_analysis)))
               /\ UNCHANGED <<pl_raised, pl_env>>
          ELSE PlEnd(OnException.pc, OnException.raised, [pl_env EXCEPT !.store = "refresh_failed"])
    /\ UNCHANGED <<pl_in, pl_backtest, pl_probability, pl_score, pl_analysis, pl_calls,
                   pl_db_before, pl_runs>>
    /\ UNCHANGED db_vars

\* the caller resumes with the returned value
PlReturn ==
    /\ pl_pc \in {"ACCEPTED", "REJECTED"}
    /\ pl_pc' = "idle"
    /\ UNCHANGED <<pl_in, pl_backtest, pl_probability, pl_score, pl_analysis, pl_result,
                   pl_raised, pl_calls, pl_env, pl_db_before, pl_runs>>
    /\ UNCHANGED db_vars

----------------------------------------------------------------------------
(* StrategyTriggerSystem, app/core/triggers/strategy_trigger.py *)

RsiRule == Rule("technical", "rsi_oversold")
SessionRule == Rule("session", "london_session")
DefaultRisk == [stop_loss_pips |-> None, take_profit_pips |-> None]

\* stands for a threshold that is not a number (a JSON string such as "30"):
\* comparing the RSI with it raises TypeError
Malformed == -1

BadRule ==
    [type |-> "technical", condition |-> "rsi_oversold",
     parameters |-> [threshold |-> Some(Malformed), period |-> None]]

\* the dicts add_strategy is called with: rules both at the top level and
\* under config (matches on RSI < 30); the same with a session rule; an
\* inactive one; the dict built by the create_strategy endpoint (rules at
\* the top level only); a row of table strategies (rules under config
\* only); a dict without a name; one whose rule raises when evaluated
StrategyCatalogue ==
    { Strategy("s1", "rsi", <<RsiRule>>, <<RsiRule>>, None, DefaultRisk),
      Strategy("s2", "session", <<SessionRule>>, <<SessionRule>>, Some(TRUE), DefaultRisk),
      Strategy("s1", "off", <<RsiRule>>, <<RsiRule>>, Some(FALSE), DefaultRisk),
      Strategy("s2", "endpoint", <<RsiRule>>, <<>>, None, DefaultRisk),
      Strategy("s1", "row", <<>>, <<RsiRule>>, Some(TRUE), DefaultRisk),
      Strategy("s2", "", <<RsiRule>>, <<RsiRule>>, None, DefaultRisk),
      Strategy("s9", "bad", <<BadRule>>, <<BadRule>>, None, DefaultRisk) }

\* what supabase_client.get_active_strategies returns
DbStrategyRows == << Strategy("s1", "row", <<>>, <<RsiRule>>, Some(TRUE), DefaultRisk) >>

\* the symbols of start(...) that go to the Binance socket, the one
\* exchange class that listens
TickSymbols == {"BTCUSDT", "ETHUSDT"}

\* candles as _listen builds them (no indicators), and candles that carry
\* an RSI of 25
TickSamples ==
    { Tick(sym, 110000, closed, rsi, None) :
        sym \in TickSymbols, closed \in BOOLEAN, rsi \in {None, Some(25)} }

\* the test of add_strategy: a name and a top-level rules entry, both truthy
Admitted(strategy) == strategy.name # "" /\ Len(strategy.rules) > 0

\* variant: the new strategy takes the place of the list
add_strategy_Replace(strategies, strategy) ==
    IF Admitted(strategy) THEN <<strategy>> ELSE strategies

\* add_strategy: the list after the call
add_strategy(strategies, strategy) ==
    IF Admitted(strategy) THEN Append(strategies, strategy) ELSE strategies

\* the loop of start over the rows loaded from the database
RECURSIVE LoadStrategies(_, _, _)
LoadStrategies(strategies, rows, i) ==
    IF i > Len(rows) THEN strategies
    ELSE LoadStrategies(add_strategy(strategies, rows[i]), rows, i + 1)

\* StrategyTriggerSystem._generate_signal: placeholder probability and
\* backtest metrics, the scorer, then the quality filter; the id is
\* int(datetime.utcnow().timestamp()), in seconds
TriggerGenerateSignal(strategy, candidate, market_data) ==
    LET probability_score == 7500
        signal_score == calculate_signal_score(WEIGHTS, probability_score,
                            [win_rate |-> 6500, sharpe_ratio |-> 15000],
                            "trending", [trending |-> 7000, ranging |-> 4000],
                            <<5, 2>>, "normal", "normal")
        signal == [id |-> utc_hour * 3600 + utc_second,
                   strategy_id |-> strategy.id,
                   strategy_name |-> strategy.name,
                   symbol |-> candidate.symbol,
                   direction |-> candidate.direction,
                   entry_price |-> candidate.entry_price,
                   stop_loss |-> candidate.stop_loss,
                   take_profit |-> candidate.take_profit,
                   probability_score |-> probability_score,
                   signal_score |-> signal_score,
                   confidence_level |-> IF signal_score > 80 THEN "High" ELSE "Medium",
                   risk_rating |-> "Medium",
                   position_sizing |-> 200,
                   status |-> "active"]
    IN IF ~validate(signal_filter, Some(signal)) THEN None ELSE Some(signal)

\* _check_rsi raises on this rule and tick: the RSI is there and the
\* threshold cannot be compared with it
RuleRaises(rule, market_data) ==
    /\ rule.type = "technical"
    /\ rule.condition \in {"rsi_oversold", "rsi_overbought"}
    /\ ~IsNone(market_data.indicators.rsi)
    /\ rule.parameters.threshold = Some(Malformed)

\* the loop of _evaluate_rules from rule i on reaches a rule that raises
RECURSIVE RulesRaise(_, _, _, _)
RulesRaise(rules, market_data, hour, i) ==
    IF i > Len(rules) THEN FALSE
    ELSE IF RuleRaises(rules[i], market_data) THEN TRUE
    ELSE IF ~_evaluate_single_rule(rules[i], market_data, hour) THEN FALSE
    ELSE RulesRaise(rules, market_data, hour, i + 1)

\* strategy_executor.execute(strategy, candle_data) raises
ExecuteRaises(strategy, market_data, hour) ==
    IsActive(strategy) /\ RulesRaise(strategy.config.rules, market_data, hour, 1)

\* the body of the loop of _on_market_data up to the call of
\* _distribute_signal: the signal of strategy i on this tick, or None
LoopSignal(strategy, candle_data, hour) ==
    LET signal_candidate == execute(strategy, candle_data, hour)
    IN IF IsNone(signal_candidate) THEN None
       ELSE TriggerGenerateSignal(strategy, Val(signal_candidate), candle_data)

\* variant: an exception leaves the loop
OnLoopException_Abort(strategies, i) == Len(strategies) + 1

\* the except clause sits inside the body of the for loop: after an
\* exception on strategy i the loop goes on with strategy i + 1
OnLoopException(strategies, i) == i + 1

\* the loop runs without suspension until a strategy yields a signal.  From
\* index i on: stop is the index of the first strategy that yields one (0
\* when the loop runs out), evaluated the indices execute was called on, in
\* order, failed those among them on which an exception was caught
RECURSIVE LoopRun(_, _, _, _)
LoopRun(strategies, candle_data, hour, i) ==
    IF i > Len(strategies) THEN [stop |-> 0, evaluated |-> <<>>, failed |-> {}]
    ELSE IF ExecuteRaises(strategies[i], candle_data, hour)
    THEN LET rest == LoopRun(strategies, candle_data, hour, OnLoopException(strategies, i))
         IN [stop |-> rest.stop, evaluated |-> <<i>> \o rest.evaluated,
             failed |-> {i} \cup rest.failed]
    ELSE IF ~IsNone(LoopSignal(strategies[i], candle_data, hour))
    THEN [stop |-> i, evaluated |-> <<i>>, failed |-> {}]
    ELSE LET rest == LoopRun(strategies, candle_data, hour, i + 1)
         IN [stop |-> rest.stop, evaluated |-> <<i>> \o rest.evaluated,
             failed |-> rest.failed]

NextSignal(strategies, candle_data, hour, i) == LoopRun(strategies, candle_data, hour, i).stop

\* variant: the newest signal goes to the head of the queue
HandOver_Front(queue, signal) == <<signal>> \o queue

\* await signal_distributor.broadcast_signal(signal): the signals reach the
\* distributor one after the other, in the order of the calls
HandOver(queue, signal) == Append(queue, signal)

\* variant: every candle goes through the loop
EligibleForSignals_All(candle_data) == TRUE

\* only closed candles go through the loop
EligibleForSignals(candle_data) == candle_data.is_closed

\* BinanceWebSocket._listen awaits _notify_callbacks, which awaits
\* _handle_market_data, which awaits _on_market_data: the next message is
\* read when the loop over the strategies has ended
ListenerReady == tr_pc = "idle"

TrIdleLoop ==
    /\ tr_pc = "idle"
    /\ tr_tick = None
    /\ tr_idx = 0

trig_log == <<data_cache, tr_delivered, tr_evals, tr_failed, dist_from, tr_added>>

TrInit ==
    /\ active_strategies = <<>>
    /\ running = FALSE
    /\ subscribed = FALSE
    /\ signals_generated = 0
    /\ distributed = <<>>
    /\ tr_ticks = 0
    /\ TrIdleLoop
    /\ data_cache = [sym \in TickSymbols |-> None]
    /\ tr_delivered = <<>>
    /\ tr_evals = <<>>
    /\ tr_failed = {}
    /\ dist_from = <<>>
    /\ tr_added = <<>>

\* add_strategy called by the create_strategy endpoint or by a script; it
\* has no await and takes no lock, so it runs whatever _on_market_data is
\* waiting for
TrAddStrategy ==
    /\ Len(active_strategies) < MaxStrategies
    /\ \E s \in StrategyCatalogue :
          /\ active_strategies' = add_strategy(active_strategies, s)
          /\ tr_added' = IF Admitted(s)
                         THEN Append(tr_added, [strategy |-> s, ticks |-> tr_ticks, pc |-> tr_pc])
                         ELSE tr_added
    /\ UNCHANGED <<running, subscribed, signals_generated, distributed, tr_ticks,
                   tr_pc, tr_tick, tr_idx, utc_hour, utc_second>>
    /\ UNCHANGED <<data_cache, tr_delivered, tr_evals, tr_failed, dist_from>>

\* the rows of the database that start admits
RECURSIVE LoadAdded(_, _, _)
LoadAdded(log, rows, i) ==
    IF i > Len(rows) THEN log
    ELSE LoadAdded(IF Admitted(rows[i])
                   THEN Append(log, [strategy |-> rows[i], ticks |-> tr_ticks, pc |-> tr_pc])
                   ELSE log, rows, i + 1)

\* start: load the rows, set running, subscribe _on_market_data
TrStart ==
    /\ ~subscribed
    /\ active_strategies' = LoadStrategies(active_strategies, DbStrategyRows, 1)
    /\ tr_added' = LoadAdded(tr_added, DbStrategyRows, 1)
    /\ running' = TRUE
    /\ subscribed' = TRUE
    /\ UNCHANGED <<signals_generated, distributed, tr_ticks, tr_pc, tr_tick, tr_idx, utc_hour, utc_second>>
    /\ UNCHANGED <<data_cache, tr_delivered, tr_evals, tr_failed, dist_from>>

\* the loop of _on_market_data on tick number n from index i on, caught
\* being the exceptions caught just before: either it suspends in
\* _distribute_signal with the signal of the next strategy that yields one,
\* or it ends
TrLoopFrom(candle_data, n, i, caught) ==
    LET run == LoopRun(active_strategies, candle_data, utc_hour, i)
        j == run.stop
    IN /\ tr_evals' = tr_evals \o [k \in 1..Len(run.evaluated) |-> <<n, run.evaluated[k]>>]
       /\ tr_failed' = tr_failed \cup caught \cup {<<n, k>> : k \in run.failed}
       /\ IF j = 0
          THEN /\ tr_pc' = "idle"
               /\ tr_tick' = None
               /\ tr_idx' = 0
               /\ UNCHANGED <<distributed, dist_from>>
          ELSE /\ tr_pc' = "distribute"
               /\ tr_tick' = Some(candle_data)
               /\ tr_idx' = j
               /\ distributed' = HandOver(distributed,
                                     Val(LoopSignal(active_strategies[j], candle_data, utc_hour)))
               /\ dist_from' = HandOver(dist_from, <<n, j>>)

\* the listener hands a candle to _handle_market_data, which writes it to
\* data_cache and awaits the subscriber _on_market_data(candle_data)
TrOnMarketData ==
    /\ subscribed
    /\ ListenerReady
    /\ tr_ticks < MaxTicks
    /\ tr_ticks' = tr_ticks + 1
    /\ \E candle_data \in TickSamples :
          /\ data_cache' = [data_cache EXCEPT ![candle_data.symbol] = Some(candle_data)]
          /\ tr_delivered' = Append(tr_delivered,
                                    [tick |-> candle_data, running |-> running,
                                     strategies |-> Len(active_strategies)])
          /\ IF ~EligibleForSignals(candle_data)
             THEN UNCHANGED <<tr_pc, tr_tick, tr_idx, distributed, dist_from, tr_evals, tr_failed>>
             ELSE TrLoopFrom(candle_data, tr_ticks + 1, 1, {})
    /\ UNCHANGED <<active_strategies, running, subscribed, signals_generated, tr_added, utc_hour, utc_second>>

\* _distribute_signal comes back, and the counter goes up, or it raises, and
\* the except clause of the loop catches it; the loop goes on
TrDistributeReturn ==
    /\ tr_pc = "distribute"
    /\ \E raised \in BOOLEAN :
          IF raised
          THEN /\ signals_generated' = signals_generated
               /\ TrLoopFrom(Val(tr_tick), tr_ticks,
                             OnLoopException(active_strategies, tr_idx), {<<tr_ticks, tr_idx>>})
          ELSE /\ signals_generated' = signals_generated + 1
               /\ TrLoopFrom(Val(tr_tick), tr_ticks, tr_idx + 1, {})
    /\ UNCHANGED <<active_strategies, running, subscribed, tr_ticks, utc_hour, utc_second>>
    /\ UNCHANGED <<data_cache, tr_delivered, tr_added>>

\* stop: the flag goes down; nothing is unsubscribed, nothing is awaited
TrStop ==
    /\ running
    /\ running' = FALSE
    /\ UNCHANGED <<active_strategies, subscribed, signals_generated, distributed, tr_ticks,
                   tr_pc, tr_tick, tr_idx, utc_hour, utc_second>>
    /\ UNCHANGED trig_log

\* time passes
ClockAdvance ==
    /\ utc_hour' = CASE utc_hour = 3 -> 8 [] utc_hour = 8 -> 14 [] utc_hour = 14 -> 23 [] OTHER -> 3
    /\ UNCHANGED <<active_strategies, running, subscribed, signals_generated, distributed,
                   tr_ticks, tr_pc, tr_tick, tr_idx, utc_second>>
    /\ UNCHANGED trig_log

\* a second passes
SecondPasses ==
    /\ utc_second < MaxSeconds
    /\ utc_second' = utc_second + 1
    /\ UNCHANGED <<active_strategies, running, subscribed, signals_generated, distributed,
                   tr_ticks, tr_pc, tr_tick, tr_idx, utc_hour>>
    /\ UNCHANGED trig_log

----------------------------------------------------------------------------
(* SignalDistributor, app/core/distribution/websocket_distributor.py *)

Clients == {"c1", "c2", "c3"}

BcIdle ==
    /\ bc_pc = "idle"
    /\ bc_cur = None
    /\ bc_size = 0
    /\ bc_start = {}
    /\ bc_visited = {}
    /\ bc_disconnected = {}
    /\ bc_log = <<>>
    /\ bc_left = {}
    /\ bc_count = 0

DistIdle ==
    /\ active_connections = {}
    /\ ever_connected = {}
    /\ BcIdle

\* connect: a websocket not seen before joins the set
DsConnect ==
    /\ Cardinality(ever_connected) < MaxClients
    /\ \E c \in Clients \ ever_connected :
          /\ active_connections' = active_connections \cup {c}
          /\ ever_connected' = ever_connected \cup {c}
    /\ UNCHANGED <<bc_pc, bc_cur, bc_size, bc_start, bc_visited, bc_disconnected,
                   bc_log, bc_left, bc_count>>

\* disconnect, called by the heartbeat task when its send to a connection
\* fails, or by the handler of the connection
DsDisconnect ==
    /\ \E c \in active_connections :
          /\ active_connections' = active_connections \ {c}
          /\ bc_left' = bc_left \cup {c}
    /\ UNCHANGED <<ever_connected, bc_pc, bc_cur, bc_size, bc_start, bc_visited,
                   bc_disconnected, bc_log, bc_count>>

\* the end of broadcast_signal: the loop over disconnected, without await
BcFinish(failed) ==
    /\ active_connections' = active_connections \ failed
    /\ bc_pc' = "done"
    /\ bc_cur' = None
    /\ UNCHANGED bc_visited

\* RuntimeError: Set changed size during iteration; it is raised outside the
\* try of the loop body and leaves broadcast_signal
BcRaise ==
    /\ bc_pc' = "raised"
    /\ bc_cur' = None
    /\ UNCHANGED <<active_connections, bc_visited>>

\* the iteration yields connection c: await connection.send_json(message)
BcSendTo(c) ==
    /\ bc_pc' = "send"
    /\ bc_cur' = Some(c)
    /\ bc_visited' = bc_visited \cup {c}
    /\ UNCHANGED active_connections

\* the for statement asks the set iterator for the next connection.  The
\* iterator raises when the size of the set is not the one it started
\* with; on the unchanged set it yields each connection once; on a set
\* changed at equal size it may yield any connection not yet yielded, or stop
BcStep(failed) ==
    LET candidates == active_connections \ bc_visited
    IN IF Cardinality(active_connections) # bc_size THEN BcRaise
       ELSE IF active_connections = bc_start
       THEN (IF candidates = {} THEN BcFinish(failed)
             ELSE \E c \in candidates : BcSendTo(c))
       ELSE \/ BcFinish(failed)
            \/ \E c \in candidates : BcSendTo(c)

\* broadcast_signal is called: it returns at once on the empty set, else it
\* starts the iteration and suspends in the first send
BcBegin ==
    /\ bc_pc \in {"idle", "done", "raised"}
    /\ bc_count < MaxBroadcasts
    /\ bc_count' = bc_count + 1
    /\ bc_log' = <<>>
    /\ bc_disconnected' = {}
    /\ bc_start' = active_connections
    /\ bc_size' = Cardinality(active_connections)
    /\ IF active_connections = {}
       THEN /\ bc_pc' = "done"
            /\ bc_cur' = None
            /\ bc_visited' = {}
       ELSE \E c \in active_connections :
               /\ bc_pc' = "send"
               /\ bc_cur' = Some(c)
               /\ bc_visited' = {c}
    /\ UNCHANGED <<active_connections, ever_connected, bc_left>>

\* the send comes back or raises; a failure is caught and the connection
\* goes to disconnected; then the loop goes on
BcSendReturn ==
    /\ bc_pc = "send"
    /\ \E ok \in BOOLEAN :
          LET failed == IF ok THEN bc_disconnected ELSE bc_disconnected \cup {Val(bc_cur)}
          IN /\ bc_log' = Append(bc_log, <<Val(bc_cur), ok>>)
             /\ bc_disconnected' = failed
             /\ BcStep(failed)
    /\ UNCHANGED <<ever_connected, bc_size, bc_start, bc_left, bc_count>>

----------------------------------------------------------------------------
(* SignalScorer.__init__, app/core/scoring/signal_scorer.py *)

Factors ==
    {"probability_score", "backtest_performance", "market_regime_match",
     "risk_reward_ratio", "volatility_match"}

\* a weights dict: factor -> weight in 1/1000, None where the key is absent
WeightMap(p, b, r, rr, v) ==
    [probability_score |-> p, backtest_performance |-> b, market_regime_match |-> r,
     risk_reward_ratio |-> rr, volatility_match |-> v]

\* the class attribute WEIGHTS as such a dict
DefaultWeights == [k \in DOMAIN WEIGHTS |-> Some(WEIGHTS[k])]

\* dicts with keys absent (the empty dict among them), with a negative
\* weight, and sums of 0.9, 0.984 .. 1.017 and more; no sample sums to 0.99 or 1.01, where the
\* outcome of the float comparison depends on the rounding of the sum
WeightMaps ==
    { WeightMap(p, b, r, rr, v) :
        p \in {None, Some(350), Some(1000), Some(2000)},
        b \in {None, Some(250), Some(-1350)},
        r \in {None, Some(200), Some(100)},
        rr \in {None, Some(150), Some(145), Some(156)},
        v \in {None, Some(50), Some(0), Some(39), Some(61)} }

\* sum(weights.values())
WeightSum(weights) ==
    LET w(k) == IF IsNone(weights[k]) THEN 0 ELSE Val(weights[k])
    IN w("probability_score") + w("backtest_performance") + w("market_regime_match")
       + w("risk_reward_ratio") + w("volatility_match")

\* the truth value of a dict: it has a key
Truthy(weights) == \E k \in DOMAIN weights : ~IsNone(weights[k])

\* SignalScorer.__init__: the scorer, or the ValueError raised
SignalScorerInit(weights) ==
    IF ~IsNone(weights) /\ Truthy(Val(weights))
    THEN LET total == WeightSum(Val(weights))
         IN IF Abs(total - 1000) > 10
            THEN [raised |-> TRUE, weights |-> None]
            ELSE [raised |-> FALSE, weights |-> weights]
    ELSE [raised |-> FALSE, weights |-> Some(DefaultWeights)]

ScorerIdle ==
    /\ sc_weights = None
    /\ sc_scorer = None
    /\ sc_call = None
    /\ sc_score = None
    /\ sc_rr_factor = None

\* SignalScorer(weights) is constructed
ScConstruct ==
    /\ IsNone(sc_scorer)
    /\ sc_scorer' = Some(SignalScorerInit(sc_weights))
    /\ UNCHANGED <<sc_weights, sc_call, sc_score, sc_rr_factor>>

\* variant: the exception leaves calculate_signal_score
OnScoringException_Propagates == [raised |-> TRUE, value |-> 0]

\* the except clause of calculate_signal_score: the neutral score 5.0
OnScoringException == [raised |-> FALSE, value |-> 50]

\* the except clause of _calculate_performance_factor: 5.0 for the factor
\* (metrics None stands for an argument without .get)
PerformanceFactor(metrics) ==
    IF IsNone(metrics) THEN 500000 ELSE _calculate_performance_factor(Val(metrics))

\* the try block of calculate_signal_score fails: probability_score / 100.0
\* on a probability that is no number (None), or self.weights[key] on a
\* key the map lacks
WeightedSumRaises(weights, probability_score) ==
    \/ IsNone(probability_score)
    \/ \E k \in Factors : IsNone(weights[k])

\* calculate_signal_score of a scorer whose self.weights is the map weights
ScorerCalculate(weights, call) ==
    IF WeightedSumRaises(weights, call.probability_score)
    THEN OnScoringException
    ELSE [raised |-> FALSE,
          value |-> WeightedScore([k \in Factors |-> Val(weights[k])],
                                  Val(call.probability_score) * 100,
                                  PerformanceFactor(call.backtest_metrics),
                                  _calculate_regime_factor(call.market_regime,
                                                           call.strategy_regime_performance),
                                  _calculate_risk_reward_factor(call.risk_reward_ratio),
                                  _calculate_volatility_factor(call.current_volatility,
                                                               call.optimal_volatility))]

\* risk/reward ratios in 1/1000, with the neighbours of the breakpoints
RatioSamples ==
    {-500, 0, 1, 500, 999, 1000, 1001, 1999, 2000, 2001, 2999, 3000, 3001, 4000}

\* arguments of calculate_signal_score: probability None is a value that
\* is no number, the sharpe ratios are -2.0 and 5.0, the regime "volatile"
\* is not in the table, 150.0 in the table is outside [0, 100]
ScoreCalls ==
    [probability_score : {None, Some(0), Some(10000)},
     backtest_metrics : {None, Some([win_rate |-> 0, sharpe_ratio |-> -20000]),
                         Some([win_rate |-> 10000, sharpe_ratio |-> 50000])},
     market_regime : {"trending", "volatile"},
     strategy_regime_performance : {regime_performance, [trending |-> 15000]},
     risk_reward_ratio : {<<a, 1000>> : a \in RatioSamples},
     current_volatility : {"very_low", "normal"},
     optimal_volatility : {"normal"}]

\* scorer.calculate_signal_score(...) on the constructed scorer
ScCalculate ==
    /\ ~IsNone(sc_scorer)
    /\ ~Val(sc_scorer).raised
    /\ IsNone(sc_score)
    /\ \E call \in ScoreCalls :
          /\ sc_call' = Some(call)
          /\ sc_score' = Some(ScorerCalculate(Val(Val(sc_scorer).weights), call))
          /\ sc_rr_factor' = IF IsNone(call.probability_score) THEN None
                             ELSE Some(_calculate_risk_reward_factor(call.risk_reward_ratio))
    /\ UNCHANGED <<sc_weights, sc_scorer>>

----------------------------------------------------------------------------
(* MonteCarloSimulator, app/core/probability/monte_carlo.py; MaxSimulations
   stands for self.n_simulations and MaxTrades for n_trades *)

\* arguments of simulate_strategy_performance: win rates 0, 60 and 100
\* percent and None, a value that is no number; avg_win and avg_loss in
\* percent, 5.0 and -2.0 being the ones _calculate_probability passes
McInputs ==
    [win_rate : {None, Some(0), Some(6000), Some(10000)},
     avg_win : {5, 100},
     avg_loss : {-2, -60, -150}]

\* values of np.random.random(), in 1/10000
DrawSamples == {0, 5999, 6000, 9999}

\* variant: the capital is left as it is
OnRuin_Keep(capital) == capital

\* if capital <= 0: capital = 0
OnRuin(capital) == IF capital <= 0 THEN 0 ELSE capital

RECURSIVE SumFinals(_, _)
SumFinals(finals, i) ==
    IF i > Len(finals) THEN 0 ELSE finals[i].capital + SumFinals(finals, i + 1)

\* the statistics of final_capitals that the result carries; percentages
\* in 1/100 of a percent.  The percentiles, the median and the standard
\* deviation are further reads of final_capitals
Statistics(finals) ==
    LET n == Len(finals)
        profits == Cardinality({i \in DOMAIN finals : finals[i].capital > initial_capital})
        ruins == Cardinality({i \in DOMAIN finals : 2 * finals[i].capital <= initial_capital})
    IN [probability_of_profit |-> Some(RoundDiv(profits * 10000, n)),
        risk_of_ruin |-> Some(RoundDiv(ruins * 10000, n)),
        expected_final_capital |-> SumFinals(finals, 1) \div n,
        error |-> FALSE]

\* the dict of the except clause: it has no key risk_of_ruin
McErrorResult ==
    [probability_of_profit |-> Some(5000),
     risk_of_ruin |-> None,
     expected_final_capital |-> initial_capital,
     error |-> TRUE]

\* simulate_strategy_performance is called: win_rate / 100.0 raises on a
\* value that is no number, else the first sequence starts
McCall ==
    /\ mc_pc = "ready"
    /\ IF IsNone(mc_in.win_rate)
       THEN /\ mc_pc' = "done"
            /\ mc_result' = Some(McErrorResult)
       ELSE /\ mc_pc' = "trade"
            /\ mc_result' = None
    /\ UNCHANGED <<by_call, by_result, mc_in, mc_capital, mc_trade, mc_finals,
                   pr_market, pr_bayes, pr_probability>>

\* one pass of the inner loop: a trade is drawn and booked; the sequence
\* ends on ruin or after MaxTrades trades, and the statistics are computed
\* after the last sequence
McTrade ==
    /\ mc_pc = "trade"
    /\ \E u \in DrawSamples :
          LET p_win == Val(mc_in.win_rate)
              rate == IF u < p_win THEN mc_in.avg_win ELSE mc_in.avg_loss
              profit == (mc_capital * rate) \div 100
              raw == mc_capital + profit
              capital == OnRuin(raw)
              ends == raw <= 0 \/ mc_trade + 1 = MaxTrades
              finals == Append(mc_finals, [capital |-> capital, trades |-> mc_trade + 1,
                                           raw |-> raw])
          IN IF ~ends
             THEN /\ mc_capital' = capital
                  /\ mc_trade' = mc_trade + 1
                  /\ UNCHANGED <<mc_pc, mc_finals, mc_result>>
             ELSE /\ mc_finals' = finals
                  /\ mc_capital' = initial_capital
                  /\ mc_trade' = 0
                  /\ IF Len(finals) = MaxSimulations
                     THEN /\ mc_pc' = "done"
                          /\ mc_result' = Some(Statistics(finals))
                     ELSE UNCHANGED <<mc_pc, mc_result>>
    /\ UNCHANGED <<by_call, by_result, mc_in, pr_market, pr_bayes, pr_probability>>

\* market_data arguments of _calculate_probability
ProbMarketSamples == MarketSamples \cup {NotADict}

\* _calculate_probability(backtest, market_data) returns, the simulation
\* it ran on float(backtest.win_rate), 5.0 and -2.0 being done
PrCombine ==
    /\ mc_pc = "done"
    /\ IsNone(pr_probability)
    /\ ~IsNone(mc_in.win_rate)
    /\ mc_in.avg_win = 5
    /\ mc_in.avg_loss = -2
    /\ \E market_data \in ProbMarketSamples :
          LET backtest == [win_rate |-> Val(mc_in.win_rate)]
              mc_prob == Val(Val(mc_result).probability_of_profit)
          IN /\ pr_market' = Some(market_data)
             /\ pr_bayes' = Some(TryPosterior(backtest.win_rate, market_data,
                                              historical_performance))
             /\ pr_probability' = Some(_calculate_probability(backtest, market_data, mc_prob))
    /\ UNCHANGED <<by_call, by_result, mc_in, mc_pc, mc_capital, mc_trade, mc_finals,
                   mc_result>>

----------------------------------------------------------------------------
(* Harness of the gate: one call of _validate_backtest on a drawn row *)

GateSamples ==
    { Backtest(t, w, s, d) :
        t \in {MIN_BACKTEST_TRADES - 1, MIN_BACKTEST_TRADES, MIN_BACKTEST_TRADES + 1},
        w \in {MIN_WIN_RATE - 1, MIN_WIN_RATE, MIN_WIN_RATE + 1},
        s \in {MIN_SHARPE_RATIO - 1, MIN_SHARPE_RATIO, MIN_SHARPE_RATIO + 1},
        d \in {MAX_DRAWDOWN - 1, MAX_DRAWDOWN, MAX_DRAWDOWN + 1} }

GateIdle ==
    /\ gt_backtest = Backtest(150, 6500, 20000, 1000)
    /\ gt_result = None
    /\ fl_signal = None
    /\ fl_result = None

GateCall ==
    /\ IsNone(gt_result)
    /\ gt_result' = Some(_validate_backtest(gt_backtest))
    /\ UNCHANGED <<gt_backtest, fl_signal, fl_result>>

\* signals around the thresholds of the filter, and no signal at all
FilterSamples ==
    {None} \cup
    { Some([signal_score |-> sc, probability_score |-> pr]) :
        sc \in {signal_filter.min_score - 1, signal_filter.min_score, signal_filter.min_score + 1},
        pr \in {signal_filter.min_probability - 1, signal_filter.min_probability,
                signal_filter.min_probability + 1} }

\* one call of signal_filter.validate on a drawn signal
FilterCall ==
    /\ IsNone(fl_result)
    /\ \E sig \in FilterSamples :
          /\ fl_signal' = sig
          /\ fl_result' = Some(validate(signal_filter, sig))
    /\ UNCHANGED <<gt_backtest, gt_result>>

----------------------------------------------------------------------------
(* Harness of the executor: one call of execute on drawn inputs *)

ExecIdle ==
    /\ ex_strategy = Strategy("s1", "rsi", <<>>, <<>>, None,
                              [stop_loss_pips |-> Some(20), take_profit_pips |-> Some(40)])
    /\ ex_tick = Tick("EURUSD", 110000, TRUE, None, None)
    /\ ex_result = None
    /\ ex_evaluated = 0
    /\ ex_pc = "ready"
    /\ ex_history = <<>>

\* one call of execute: it reads strategy and market_data, assigns to
\* neither, and has no attribute of the executor to write to
ExecCall ==
    /\ ex_pc = "ready"
    /\ ex_result' = execute(ex_strategy, ex_tick, utc_hour)
    /\ ex_evaluated' = ExecRulesEvaluated(ex_strategy, ex_tick, utc_hour)
    /\ ex_pc' = "done"
    /\ ex_history' = Append(ex_history, execute(ex_strategy, ex_tick, utc_hour))
    /\ UNCHANGED <<ex_strategy, ex_tick, utc_hour, utc_second>>

\* the caller comes back with the same strategy and the same tick
ExecAgain ==
    /\ ex_pc = "done"
    /\ Len(ex_history) < MaxCalls
    /\ ex_pc' = "ready"
    /\ ex_result' = None
    /\ ex_evaluated' = 0
    /\ UNCHANGED <<ex_strategy, ex_tick, ex_history, utc_hour, utc_second>>

----------------------------------------------------------------------------
(* Specifications *)

\* the executor on every drawn (strategy, tick, hour)
ExecInit ==
    /\ ex_strategy \in ExecStrategies
    /\ ex_tick \in ExecTicks
    /\ ex_result = None
    /\ ex_evaluated = 0
    /\ ex_pc = "ready"
    /\ ex_history = <<>>
    /\ utc_hour \in Hours
    /\ utc_second = 0
    /\ GateIdle /\ DbIdle /\ PipeIdle /\ TrInit /\ DistIdle /\ ScorerIdle /\ ProbIdle

ExecNext == ExecCall /\ UNCHANGED <<gate_vars, db_vars, pipe_vars, trig_vars, aux_vars>>

ExecSpec == ExecInit /\ [][ExecNext]_vars

\* the executor called repeatedly on one (strategy, tick) while time passes
PureNext ==
    \/ ExecCall /\ UNCHANGED <<gate_vars, db_vars, pipe_vars, trig_vars, aux_vars>>
    \/ ExecAgain /\ UNCHANGED <<gate_vars, db_vars, pipe_vars, trig_vars, aux_vars>>
    \/ ClockAdvance /\ UNCHANGED <<exec_vars, gate_vars, db_vars, pipe_vars, aux_vars>>

PureSpec == ExecInit /\ [][PureNext]_vars

\* the gate on every drawn backtest row
GateInit ==
    /\ gt_backtest \in GateSamples
    /\ gt_result = None
    /\ fl_signal = None
    /\ fl_result = None
    /\ utc_hour = 8
    /\ utc_second = 0
    /\ ExecIdle /\ DbIdle /\ PipeIdle /\ TrInit /\ DistIdle /\ ScorerIdle /\ ProbIdle

GateNext == GateCall /\ UNCHANGED <<exec_vars, db_vars, pipe_vars, trig_vars, aux_vars, utc_hour, utc_second>>

GateSpec == GateInit /\ [][GateNext]_vars

\* the pipeline against a drawn database
PipeInit ==
    /\ utc_hour = 8
    /\ utc_second = 0
    /\ ExecIdle /\ GateIdle /\ DbInit /\ PipeIdle /\ TrInit /\ DistIdle /\ ScorerIdle /\ ProbIdle

PipeStep ==
    \/ PlInvoke
    \/ PlLoadStrategy
    \/ PlLoadBacktest
    \/ PlEnrichReturn
    \/ PlCommit
    \/ PlRefresh
    \/ PlReturn

PipeNext ==
    \/ PipeStep /\ UNCHANGED <<exec_vars, gate_vars, trig_vars, aux_vars, utc_hour, utc_second>>
    \/ FilterCall /\ UNCHANGED <<exec_vars, db_vars, pipe_vars, trig_vars, aux_vars, utc_hour, utc_second>>

PipeSpec == PipeInit /\ [][PipeNext]_vars

\* the pipeline under the scheduling the event loop and the database give:
\* a coroutine that can resume does resume, a database call comes back.
\* Nothing makes the enrichment service answer, so PlEnrichReturn is not
\* under fairness.
PipeFairSpec ==
    /\ PipeInit /\ [][PipeNext]_vars
    /\ WF_vars(PlLoadStrategy /\ UNCHANGED <<exec_vars, gate_vars, trig_vars, aux_vars, utc_hour, utc_second>>)
    /\ WF_vars(PlLoadBacktest /\ UNCHANGED <<exec_vars, gate_vars, trig_vars, aux_vars, utc_hour, utc_second>>)
    /\ WF_vars(PlCommit /\ UNCHANGED <<exec_vars, gate_vars, trig_vars, aux_vars, utc_hour, utc_second>>)
    /\ WF_vars(PlRefresh /\ UNCHANGED <<exec_vars, gate_vars, trig_vars, aux_vars, utc_hour, utc_second>>)
    /\ WF_vars(PlReturn /\ UNCHANGED <<exec_vars, gate_vars, trig_vars, aux_vars, utc_hour, utc_second>>)

\* the trigger system: strategies are added, candles arrive, all within one
\* second.  None of the strategies of StrategyCatalogue reads the clock
\* (london_session is not a key of sessions), and no step of the trigger
\* system reads the database
Init ==
    /\ utc_hour = 8
    /\ utc_second = 0
    /\ ExecIdle /\ GateIdle /\ DbIdle /\ PipeIdle /\ TrInit /\ DistIdle /\ ScorerIdle /\ ProbIdle

TrStep ==
    \/ TrAddStrategy
    \/ TrStart
    \/ TrOnMarketData
    \/ TrDistributeReturn
    \/ TrStop

Next == TrStep /\ UNCHANGED <<exec_vars, gate_vars, db_vars, pipe_vars, aux_vars>>

Spec == Init /\ [][Next]_vars

\* the trigger system while seconds pass
TimedStep ==
    \/ TrStep
    \/ SecondPasses

TimedNext == TimedStep /\ UNCHANGED <<exec_vars, gate_vars, db_vars, pipe_vars, aux_vars>>

TimedSpec == Init /\ [][TimedNext]_vars

----------------------------------------------------------------------------
\* the distributor: clients come and go while a signal is broadcast
DistInit ==
    /\ utc_hour = 8
    /\ utc_second = 0
    /\ ExecIdle /\ GateIdle /\ DbIdle /\ PipeIdle /\ TrInit /\ DistIdle /\ ScorerIdle /\ ProbIdle

DistStep ==
    \/ DsConnect
    \/ DsDisconnect
    \/ BcBegin
    \/ BcSendReturn

DistNext ==
    DistStep /\ UNCHANGED <<exec_vars, gate_vars, db_vars, pipe_vars, trig_vars,
                            scorer_vars, prob_vars, utc_hour, utc_second>>

DistSpec == DistInit /\ [][DistNext]_vars

\* the scorer constructed on every drawn weights argument, then asked for
\* one score
ScorerInit ==
    /\ sc_weights \in {None} \cup {Some(w) : w \in WeightMaps}
    /\ sc_scorer = None
    /\ sc_call = None
    /\ sc_score = None
    /\ sc_rr_factor = None
    /\ utc_hour = 8
    /\ utc_second = 0
    /\ ExecIdle /\ GateIdle /\ DbIdle /\ PipeIdle /\ TrInit /\ DistIdle /\ ProbIdle

ScorerStep ==
    \/ ScConstruct
    \/ ScCalculate

ScorerNext ==
    ScorerStep /\ UNCHANGED <<exec_vars, gate_vars, db_vars, pipe_vars, trig_vars,
                               dist_vars, prob_vars, utc_hour, utc_second>>

ScorerSpec == ScorerInit /\ [][ScorerNext]_vars

\* one call of calculate_posterior_probability on drawn arguments
BayesInit ==
    /\ utc_hour = 8
    /\ utc_second = 0
    /\ ExecIdle /\ GateIdle /\ DbIdle /\ PipeIdle /\ TrInit /\ DistIdle /\ ScorerIdle /\ ProbIdle

BayesNext ==
    ByCall /\ UNCHANGED <<exec_vars, gate_vars, db_vars, pipe_vars, trig_vars,
                          dist_vars, scorer_vars, utc_hour, utc_second>>

BayesSpec == BayesInit /\ [][BayesNext]_vars

\* one simulation on drawn arguments, then the combined probability
ProbInit ==
    /\ by_call = None
    /\ by_result = None
    /\ mc_in \in McInputs
    /\ McIdle
    /\ utc_hour = 8
    /\ utc_second = 0
    /\ ExecIdle /\ GateIdle /\ DbIdle /\ PipeIdle /\ TrInit /\ DistIdle /\ ScorerIdle

ProbStep ==
    \/ McCall
    \/ McTrade
    \/ PrCombine

ProbNext ==
    ProbStep /\ UNCHANGED <<exec_vars, gate_vars, db_vars, pipe_vars, trig_vars,
                            dist_vars, scorer_vars, utc_hour, utc_second>>

ProbSpec == ProbInit /\ [][ProbNext]_vars

----------------------------------------------------------------------------
(* Properties *)

PipeTerminal == pl_pc \in {"ACCEPTED", "REJECTED"}

\* C1: every signal handed to the distribution boundary comes from a
\* SignalPipeline run for its strategy (an accepted run commits its signal
\* to table signals before it returns) in which the strategy's latest
\* backtest passed the gate.  Specification Spec.
C1_OnlyGatedSignals ==
    \A i \in DOMAIN distributed :
        LET id == distributed[i].strategy_id
        IN /\ \E k \in DOMAIN db_signals : db_signals[k].strategy_id = id
           /\ ~IsNone(db_backtests[id])
           /\ _validate_backtest(Val(db_backtests[id]))

\* C2: the score threshold and the probability threshold are independent
\* gates.  A run whose score or whose probability is below its minimum ends
\* REJECTED without a signal, a run is past step 5 only with both at or above
\* the minimum, an ACCEPTED signal reports both at or above the minimum, and
\* validate answers TRUE exactly for a signal with both at or above the
\* minimum of the filter.  Specification PipeSpec.
C2_IndependentThresholds ==
    /\ (~IsNone(pl_score) /\ (Val(pl_score) < MIN_SIGNAL_SCORE \/ Val(pl_probability) < MIN_PROBABILITY))
          => (pl_pc \in {"REJECTED", "idle"} /\ IsNone(pl_result))
    /\ pl_pc \in {"enrich", "commit", "refresh", "ACCEPTED"}
          => (Val(pl_score) >= MIN_SIGNAL_SCORE /\ Val(pl_probability) >= MIN_PROBABILITY)
    /\ pl_pc = "ACCEPTED"
          => /\ Val(pl_result).signal_score >= MIN_SIGNAL_SCORE
             /\ Val(pl_result).probability_score >= MIN_PROBABILITY
    /\ ~IsNone(fl_result)
          => (Val(fl_result) <=> /\ ~IsNone(fl_signal)
                                 /\ Val(fl_signal).signal_score >= signal_filter.min_score
                                 /\ Val(fl_signal).probability_score >= signal_filter.min_probability)

\* a run was ACCEPTED, and the filter vetoed a signal on its probability alone
C2_Witness ==
    /\ pl_pc = "ACCEPTED"
    /\ ~IsNone(pl_result)
    /\ fl_result = Some(FALSE)
    /\ ~IsNone(fl_signal)
    /\ Val(fl_signal).signal_score >= signal_filter.min_score
    /\ Val(fl_signal).probability_score < signal_filter.min_probability

\* C3: a run that finds the strategy or its latest backtest missing ends
\* REJECTED, returns None, stores nothing, calls neither the probability
\* engine nor the scorer nor the enrichment service, and lets no exception
\* out.  Specification PipeSpec.
C3_MissingDataRejected ==
    pl_env.load \in {"missing_strategy", "missing_backtest"}
        => /\ pl_pc \in {"REJECTED", "idle"}
           /\ IsNone(pl_result)
           /\ pl_calls = {}
           /\ Len(db_signals) = pl_db_before
           /\ ~pl_raised

\* the run ended because the strategy exists and has no backtest
C3_Witness ==
    /\ pl_pc = "REJECTED"
    /\ pl_env.load = "missing_backtest"
    /\ Val(pl_in).strategy_id \in db_strategies

\* C4: the gate passes a row exactly when trades >= minimum, win rate >=
\* minimum, Sharpe >= minimum and drawdown <= maximum, every bound
\* inclusive.  Specification GateSpec.
C4_GateInclusive ==
    ~IsNone(gt_result)
        => (Val(gt_result) <=> /\ gt_backtest.total_trades >= MIN_BACKTEST_TRADES
                               /\ gt_backtest.win_rate >= MIN_WIN_RATE
                               /\ gt_backtest.sharpe_ratio >= MIN_SHARPE_RATIO
                               /\ gt_backtest.max_drawdown <= MAX_DRAWDOWN)

\* a row that sits exactly on all four bounds was accepted
C4_Witness ==
    /\ gt_result = Some(TRUE)
    /\ gt_backtest.total_trades = MIN_BACKTEST_TRADES
    /\ gt_backtest.win_rate = MIN_WIN_RATE
    /\ gt_backtest.sharpe_ratio = MIN_SHARPE_RATIO
    /\ gt_backtest.max_drawdown = MAX_DRAWDOWN

\* C5: a run whose enrichment call failed (exception or unparsable answer)
\* ends ACCEPTED with a signal that carries the conservative default.
\* Specification PipeSpec.
C5_EnrichmentFailureNotFatal ==
    (PipeTerminal /\ pl_env.enrich \in {"exception", "unparsable"})
        => /\ pl_pc = "ACCEPTED"
           /\ ~IsNone(pl_result)
           /\ Val(pl_result).confidence_level = "Low"
           /\ Val(pl_result).risk_rating = "High"
           /\ Val(pl_result).position_sizing = 100

\* C6: a run whose store step failed still ends ACCEPTED and returns the
\* assembled signal.  Specification PipeSpec.
C6_StoreFailureNotFatal ==
    (PipeTerminal /\ pl_env.store \in {"commit_failed", "refresh_failed"})
        => (pl_pc = "ACCEPTED" /\ ~IsNone(pl_result))

\* C7: every call of generate_signal reaches REJECTED or ACCEPTED.
\* Specification PipeFairSpec.
C7_RunTerminates == (pl_pc = "load_strategy") ~> PipeTerminal

\* the rule list of the strategy under evaluation
ExRules == ex_strategy.config.rules

\* C8: for an active strategy execute returns a candidate iff the rule list
\* is non-empty and every rule in it evaluates true; an empty rule list
\* gives no candidate for any tick.  Specification ExecSpec.
C8_ConjunctiveMatch ==
    ex_pc = "done"
        => /\ ex_strategy.is_active # Some(FALSE)
                => (~IsNone(ex_result)
                      <=> /\ Len(ExRules) > 0
                          /\ \A i \in 1..Len(ExRules) :
                                _evaluate_single_rule(ExRules[i], ex_tick, utc_hour))
           /\ Len(ExRules) = 0 => IsNone(ex_result)

\* a strategy with two rules matched
C8_Witness ==
    /\ ex_pc = "done"
    /\ ~IsNone(ex_result)
    /\ Len(ExRules) >= 2
    /\ ExRules[1] # ExRules[2]

\* C9: a strategy whose active flag is false gives no candidate and none of
\* its rules is evaluated.  Specification ExecSpec.
C9_InactiveNeverMatches ==
    (ex_pc = "done" /\ ex_strategy.is_active = Some(FALSE))
        => (IsNone(ex_result) /\ ex_evaluated = 0)

\* an inactive strategy whose rules all hold on the tick was evaluated
C9_Witness ==
    /\ ex_pc = "done"
    /\ ex_strategy.is_active = Some(FALSE)
    /\ Len(ExRules) > 0
    /\ \A i \in 1..Len(ExRules) : _evaluate_single_rule(ExRules[i], ex_tick, utc_hour)

\* the (type, condition) pairs that _evaluate_single_rule and _check_session
\* send to a predicate of their own
DedicatedPairs ==
    { <<"price_action", "liquidity_sweep">>, <<"price_action", "order_block">>,
      <<"technical", "rsi_oversold">>, <<"technical", "rsi_overbought">>,
      <<"technical", "above_ema">>,
      <<"session", "london">>, <<"session", "new_york">>, <<"session", "asia">> }

\* C10: a rule whose (type, condition) pair has no dedicated predicate
\* evaluates false, so a strategy that contains one gives no candidate.
\* Specification ExecSpec.
C10_FailClosed ==
    ex_pc = "done"
        => \A i \in 1..Len(ExRules) :
              <<ExRules[i].type, ExRules[i].condition>> \notin DedicatedPairs
                  => /\ ~_evaluate_single_rule(ExRules[i], ex_tick, utc_hour)
                     /\ IsNone(ex_result)

\* C11: execute is a pure function of (strategy, tick): a call leaves the
\* strategy and the tick as they were, and any two calls on the same
\* strategy and tick, whenever they are made, return the same result.
\* Specification PureSpec.
C11_PureEvaluation ==
    \A i, j \in 1..Len(ex_history) : ex_history[i] = ex_history[j]

\* the part of C11 that holds: no call of execute changes its arguments
ExecArgumentsUntouched == [][ex_strategy' = ex_strategy /\ ex_tick' = ex_tick]_vars

\* the distances execute works with: those under config.risk_management,
\* 20 and 40 pips where the keys are absent
ExStopPips ==
    LET r == ex_strategy.config.risk_management
    IN IF IsNone(r.stop_loss_pips) THEN 20 ELSE Val(r.stop_loss_pips)

ExTargetPips ==
    LET r == ex_strategy.config.risk_management
    IN IF IsNone(r.take_profit_pips) THEN 40 ELSE Val(r.take_profit_pips)

\* the unit multiplier: 0.01 for a JPY-quoted symbol, 0.0001 otherwise
ExUnit == IF ex_tick.symbol \in {"USDJPY", "EURJPY"} THEN 1000 ELSE 10

\* C12: a candidate has entry price equal to the close of the tick, and
\* stop and target at the configured distances times the unit multiplier
\* of the symbol: below and above the entry for BUY, above and below for
\* SELL; with both distances positive they lie on opposite sides of the
\* entry.  Specification ExecSpec.
C12_CandidatePrices ==
    (ex_pc = "done" /\ ~IsNone(ex_result))
        => LET c == Val(ex_result)
           IN /\ c.symbol = ex_tick.symbol
              /\ c.entry_price = ex_tick.close
              /\ c.direction \in {"BUY", "SELL"}
              /\ c.direction = "BUY"
                    => /\ c.stop_loss = ex_tick.close - ExStopPips * ExUnit
                       /\ c.take_profit = ex_tick.close + ExTargetPips * ExUnit
              /\ c.direction = "SELL"
                    => /\ c.stop_loss = ex_tick.close + ExStopPips * ExUnit
                       /\ c.take_profit = ex_tick.close - ExTargetPips * ExUnit
              /\ (ExStopPips > 0 /\ ExTargetPips > 0)
                    => \/ c.stop_loss < c.entry_price /\ c.entry_price < c.take_profit
                       \/ c.take_profit < c.entry_price /\ c.entry_price < c.stop_loss

\* a candidate on a JPY-quoted symbol with configured distances other than
\* the defaults
C12_Witness ==
    /\ ex_pc = "done"
    /\ ~IsNone(ex_result)
    /\ ex_tick.symbol = "USDJPY"
    /\ ex_strategy.config.risk_management.stop_loss_pips = Some(50)
    /\ Val(ex_result).stop_loss = 15000000 - 50000
    /\ Val(ex_result).take_profit = 15000000 + 10000

\* the loop of _on_market_data on candle number n has ended
Completed(n) == n < tr_ticks \/ tr_pc = "idle"

Closed(n) == tr_delivered[n].tick.is_closed

\* strategy_executor.execute was called for strategy number i on candle n
Evaluated(n, i) == \E k \in DOMAIN tr_evals : tr_evals[k] = <<n, i>>

\* every strategy that was in the list when candle n arrived was evaluated
FullyEvaluated(n) == \A j \in 1..tr_delivered[n].strategies : Evaluated(n, j)

\* C13: the delivery of a candle whose closed flag is false triggers no
\* rule evaluation, no pipeline run and no distribution and leaves
\* signals_generated as it was, and the candle is the cached latest tick
\* of its symbol afterwards.  Specification Spec.
C13_OpenTicksIgnored ==
    [][(tr_ticks' = tr_ticks + 1 /\ ~tr_delivered'[Len(tr_delivered')].tick.is_closed)
          => /\ tr_evals' = tr_evals
             /\ pl_runs' = pl_runs
             /\ distributed' = distributed
             /\ signals_generated' = signals_generated
             /\ tr_pc' = tr_pc
             /\ LET candle == tr_delivered'[Len(tr_delivered')].tick
                IN data_cache'[candle.symbol] = Some(candle)]_vars

\* an open candle on which a strategy of the list would have matched had it
\* been closed was delivered: it is in the cache and nothing was evaluated
C13_Witness ==
    /\ Len(tr_delivered) = 1
    /\ ~tr_delivered[1].tick.is_closed
    /\ data_cache[tr_delivered[1].tick.symbol] = Some(tr_delivered[1].tick)
    /\ \E i \in DOMAIN active_strategies :
          ~IsNone(LoopSignal(active_strategies[i],
                             [tr_delivered[1].tick EXCEPT !.is_closed = TRUE], utc_hour))
    /\ tr_evals = <<>>
    /\ distributed = <<>>

\* C14: when an exception is caught for one strategy on one closed candle,
\* every strategy of the active set is still evaluated on that candle, and
\* every closed candle delivered later is still processed in full.
\* Specification Spec.
C14_FailureIsolation ==
    \A f \in tr_failed :
        /\ Completed(f[1]) => FullyEvaluated(f[1])
        /\ \A m \in (f[1] + 1)..Len(tr_delivered) :
              (Closed(m) /\ Completed(m)) => FullyEvaluated(m)

\* the rule of the first strategy raised on the first candle, the second
\* strategy was evaluated on it all the same, and so were both on the next
C14_Witness ==
    /\ <<1, 1>> \in tr_failed
    /\ ExecuteRaises(active_strategies[1], tr_delivered[1].tick, utc_hour)
    /\ tr_delivered[1].strategies = 2
    /\ Evaluated(1, 2)
    /\ Len(tr_delivered) = 2
    /\ Closed(2)
    /\ tr_pc = "idle"
    /\ Evaluated(2, 1) /\ Evaluated(2, 2)

\* C15: once stop() has been called the system accepts no new candle: a
\* candle delivered after stop causes no rule evaluation and no
\* distribution.  Specification Spec.
C15_GracefulShutdown ==
    /\ \A k \in DOMAIN tr_evals : tr_delivered[tr_evals[k][1]].running
    /\ \A k \in DOMAIN dist_from : tr_delivered[dist_from[k][1]].running

\* the other half of the shutdown contract: when stop has returned no loop
\* is waiting in _distribute_signal
StopDrains == (subscribed /\ ~running) => tr_pc = "idle"

\* C16: for two closed candles of one symbol, every signal triggered by the
\* one delivered first is handed to the distributor before any signal
\* triggered by the other.  Specification Spec.
C16_PerSymbolOrder ==
    \A a, b \in DOMAIN dist_from :
        (/\ dist_from[a][1] < dist_from[b][1]
         /\ tr_delivered[dist_from[a][1]].tick.symbol = tr_delivered[dist_from[b][1]].tick.symbol)
            => a < b

\* two signals of the first candle and one of the second, same symbol
C16_Witness ==
    /\ Len(dist_from) = 3
    /\ dist_from[1][1] = 1 /\ dist_from[2][1] = 1 /\ dist_from[3][1] = 2
    /\ tr_delivered[1].tick.symbol = tr_delivered[2].tick.symbol

\* C17: a strategy admitted by add_strategy is evaluated on every closed
\* candle whose processing begins after the add, also when the add came
\* while an earlier candle was waiting in _distribute_signal; the add is
\* possible at every position of the loop, and the evaluations in progress
\* go on in order, each (candle, strategy) pair once.  Specification Spec.
C17_AddedIsEvaluated ==
    /\ \A a \in DOMAIN tr_added : \A n \in DOMAIN tr_delivered :
          (n > tr_added[a].ticks /\ Closed(n) /\ Completed(n))
             => \E k \in DOMAIN tr_evals :
                   /\ tr_evals[k][1] = n
                   /\ tr_evals[k][2] \in DOMAIN active_strategies
                   /\ active_strategies[tr_evals[k][2]] = tr_added[a].strategy
    /\ \A k, l \in DOMAIN tr_evals :
          k < l => \/ tr_evals[k][1] < tr_evals[l][1]
                   \/ tr_evals[k][1] = tr_evals[l][1] /\ tr_evals[k][2] < tr_evals[l][2]
    /\ Len(active_strategies) < MaxStrategies => ENABLED TrAddStrategy

\* a strategy was added while the first candle waited in _distribute_signal
\* and was evaluated on the second candle
C17_Witness ==
    /\ \E a \in DOMAIN tr_added :
          /\ tr_added[a].pc = "distribute"
          /\ tr_added[a].ticks = 1
          /\ active_strategies[2] = tr_added[a].strategy
    /\ Len(tr_delivered) = 2
    /\ Closed(2)
    /\ tr_pc = "idle"
    /\ Evaluated(2, 2)

\* C18: after any sequence of start, add_strategy and deliveries, a
\* (strategy, closed candle) pair gives no more than one signal to the
\* distributor.  Specification Spec.
C18_ExactlyOnce ==
    \A a, b \in DOMAIN dist_from :
        (a # b /\ dist_from[a][1] = dist_from[b][1])
            => active_strategies[dist_from[a][2]] # active_strategies[dist_from[b][2]]

\* the other half of the claim: between candles signals_generated is the
\* number of signals handed to the distributor
CounterMatchesDistribution == tr_pc = "idle" => signals_generated = Len(distributed)

\* a send of the current broadcast failed
BcSendFailed == \E k \in DOMAIN bc_log : ~bc_log[k][2]

\* C19: when a send to one client fails during broadcast_signal, nothing is
\* raised to the caller, every client that is still connected has been
\* sent the signal, no client is sent it twice, and on return the failing
\* clients are out of active_connections while the clients whose send
\* succeeded are still in it unless they were disconnected from outside.
\* Specification DistSpec.
C19_FireAndForget ==
    (bc_pc \in {"done", "raised"} /\ BcSendFailed)
        => /\ bc_pc = "done"
           /\ \A c \in bc_start \cap active_connections : \E k \in DOMAIN bc_log : bc_log[k][1] = c
           /\ \A k, l \in DOMAIN bc_log : k # l => bc_log[k][1] # bc_log[l][1]
           /\ \A k \in DOMAIN bc_log :
                 IF bc_log[k][2]
                 THEN bc_log[k][1] \in active_connections \cup bc_left
                 ELSE bc_log[k][1] \notin active_connections

\* the claim of C19 on the broadcasts during which no client came or went
C19_WhenUndisturbed ==
    (bc_pc \in {"done", "raised"} /\ BcSendFailed /\ bc_left = {} /\ ever_connected = bc_start)
        => /\ bc_pc = "done"
           /\ \A c \in bc_start : \E k \in DOMAIN bc_log : bc_log[k][1] = c
           /\ \A k, l \in DOMAIN bc_log : k # l => bc_log[k][1] # bc_log[l][1]
           /\ \A k \in DOMAIN bc_log : bc_log[k][2] <=> bc_log[k][1] \in active_connections

\* the weights argument is a dict whose values do not sum to 1.0 within 0.01
ScOffSum == ~IsNone(sc_weights) /\ Abs(WeightSum(Val(sc_weights)) - 1000) > 10

\* C20: a weight map whose values do not sum to 1.0 within 0.01 makes the
\* construction raise, and a weight map that is accepted is the map the
\* scorer works with.  Specification ScorerSpec.
C20_WeightsValidated ==
    (~IsNone(sc_scorer) /\ ~IsNone(sc_weights))
        => /\ ScOffSum => Val(sc_scorer).raised
           /\ ~Val(sc_scorer).raised => Val(sc_scorer).weights = sc_weights

\* the claim of C20 on the weight maps that have a key
C20_NonEmptyValidated ==
    (~IsNone(sc_scorer) /\ ~IsNone(sc_weights) /\ Truthy(Val(sc_weights)))
        => /\ ScOffSum <=> Val(sc_scorer).raised
           /\ ~Val(sc_scorer).raised => Val(sc_scorer).weights = sc_weights

\* the arguments of the scoring call are valid: a probability and a win
\* rate in [0, 100]
ScValidCall ==
    /\ ~IsNone(sc_call)
    /\ ~IsNone(Val(sc_call).probability_score)
    /\ Val(Val(sc_call).probability_score) \in 0..10000
    /\ ~IsNone(Val(sc_call).backtest_metrics)
    /\ Val(Val(sc_call).backtest_metrics).win_rate \in 0..10000

\* C21: on valid arguments and with any weight map the construction
\* accepted, calculate_signal_score returns a value in [0, 10].
\* Specification ScorerSpec.
C21_ScoreInRange ==
    (~IsNone(sc_score) /\ ScValidCall)
        => /\ ~Val(sc_score).raised
           /\ Val(sc_score).value >= 0
           /\ Val(sc_score).value <= 100

\* a custom weight map with a negative weight was accepted, all five keys
\* are in it, and the score of a valid call came out at the upper bound
C21_Witness ==
    /\ ~IsNone(sc_score)
    /\ ScValidCall
    /\ ~IsNone(sc_weights)
    /\ Val(sc_scorer).weights = sc_weights
    /\ ~WeightedSumRaises(Val(sc_weights), Val(sc_call).probability_score)
    /\ Val(Val(sc_weights).backtest_performance) < 0
    /\ Val(sc_score).value = 100

\* C22: calculate_signal_score raises for no arguments, and when the
\* computation of the weighted sum fails (the weight map lacks a factor
\* key, the probability is no number) it returns the neutral score 5.0.
\* Specification ScorerSpec.
C22_ScoringNeverRaises ==
    ~IsNone(sc_score)
        => /\ ~Val(sc_score).raised
           /\ WeightedSumRaises(Val(Val(sc_scorer).weights), Val(sc_call).probability_score)
                 => Val(sc_score).value = 50

\* an accepted weight map lacks a factor key and the probability is a
\* number: the call returned 5.0
C22_Witness ==
    /\ ~IsNone(sc_score)
    /\ ~IsNone(Val(sc_call).probability_score)
    /\ \E k \in Factors : IsNone(Val(Val(sc_scorer).weights)[k])
    /\ Val(sc_score) = [raised |-> FALSE, value |-> 50]

\* the factor of the ratio a / 1000
RRFactor(a) == _calculate_risk_reward_factor(<<a, 1000>>)

\* C23: the risk/reward factor depends on the ratio alone, is in [0, 10],
\* does not decrease when the ratio grows, is 1.5, 3.0, 7.0, 10.0 and 10.0
\* at the ratios 0.5, 1, 2, 3 and 4, is 0 at every ratio <= 0, and makes
\* no jump at the breakpoints (0.001 more of ratio is at most 0.004 more
\* of factor).  Specification ScorerSpec.
C23_RiskRewardFactor ==
    ~IsNone(sc_rr_factor)
        => LET a == Val(sc_call).risk_reward_ratio[1]
               f == Val(sc_rr_factor)
           IN /\ f = RRFactor(a)
              /\ f >= 0 /\ f <= 1000000
              /\ \A a2 \in RatioSamples : a2 <= a => RRFactor(a2) <= f
              /\ a = 500 => f = 150000
              /\ a = 1000 => f = 300000
              /\ a = 2000 => f = 700000
              /\ a = 3000 => f = 1000000
              /\ a = 4000 => f = 1000000
              /\ a <= 0 => f = 0
              /\ \A a2 \in RatioSamples : a2 = a + 1 => RRFactor(a2) - f <= 400

\* the factor was computed for the ratio 2.0, the breakpoint between the
\* segments 3..7 and 7..10
C23_Witness ==
    /\ ~IsNone(sc_rr_factor)
    /\ Val(sc_call).risk_reward_ratio = <<2000, 1000>>
    /\ Val(sc_rr_factor) = 700000

\* the success rate of the current regime in the table of the call, in 1/100
ByRegimeSuccessRate ==
    RegimeStats(Val(by_call).historical_performance,
                CondRegime(Val(by_call).current_conditions), "success")

\* C24: for a prior win rate strictly between 0 and 100 and a success rate
\* of the current regime above prior / 100, the posterior returned by
\* calculate_posterior_probability is above the prior.
\* Specification BayesSpec.
C24_PosteriorAbovePrior ==
    (/\ ~IsNone(by_result)
     /\ IsDict(Val(by_call).current_conditions)
     /\ Val(by_call).prior_win_rate \in 1..9999
     /\ ByRegimeSuccessRate * 100 > Val(by_call).prior_win_rate)
        => Val(by_result) > Val(by_call).prior_win_rate * 100

\* what the code does instead: the posterior is above the prior exactly
\* when the likelihood of the conditions given success is above the one
\* given failure
C24_AboveIffLikelier ==
    (/\ ~IsNone(by_result)
     /\ IsDict(Val(by_call).current_conditions)
     /\ Val(by_call).prior_win_rate \in 1..9999)
        => LET c == Val(by_call)
               ls == _calculate_likelihood(c.current_conditions, c.historical_performance, "success")
               lf == _calculate_likelihood(c.current_conditions, c.historical_performance, "failure")
           IN (Val(by_result) > c.prior_win_rate * 100) <=> (ls > lf)

\* C25: the combined probability is 0.6 times the posterior plus 0.4
\* times the profit probability of the simulation, rounded to two
\* decimals, and it is in [0, 100]; this covers the posterior that fell
\* back to the prior.  Specification ProbSpec.
C25_CombinedProbability ==
    ~IsNone(pr_probability)
        => LET exact == 6 * Val(pr_bayes) + 400 * Val(Val(mc_result).probability_of_profit)
           IN /\ Val(pr_probability) >= 0
              /\ Val(pr_probability) <= 10000
              /\ Abs(1000 * Val(pr_probability) - exact) <= 500

\* market_data was no dict, the posterior fell back to the prior of 60
\* percent, the simulation reported 50 percent: the result is 56.0
C25_Witness ==
    /\ ~IsNone(pr_probability)
    /\ pr_market = Some(NotADict)
    /\ Val(pr_bayes) = 600000
    /\ Val(Val(mc_result).probability_of_profit) = 5000
    /\ Val(pr_probability) = 5600

\* the win rate of the simulation is a number in [0, 100]
McValidInput ==
    /\ ~IsNone(mc_in.win_rate)
    /\ Val(mc_in.win_rate) \in 0..10000

PlQualified ==
    /\ pl_env.load = "ok"
    /\ pl_env.gate = Some(TRUE)
    /\ ~IsNone(pl_score)
    /\ ~IsNone(pl_probability)
    /\ ~BelowThreshold(Val(pl_score), Val(pl_probability))

\* the signal returned is the candidate, with what the enrichment call
\* returned, active, expiring SIGNAL_EXPIRY_HOURS after its creation
PlSignalComplete ==
    /\ pl_pc = "ACCEPTED"
    /\ ~IsNone(pl_result)
    /\ LET signal == Val(pl_result)
           in == Val(pl_in)
           analysis == Val(pl_analysis)
       IN /\ signal.symbol = in.symbol
          /\ signal.direction = in.direction
          /\ signal.entry_price = in.entry_price
          /\ signal.stop_loss = in.stop_loss
          /\ signal.take_profit = in.take_profit
          /\ signal.confidence_level = analysis.confidence_level
          /\ signal.risk_rating = analysis.risk_rating
          /\ signal.trade_explanation = analysis.trade_explanation
          /\ signal.position_sizing = analysis.position_sizing
          /\ signal.status = "active"
          /\ signal.expires_at = utc_hour + SIGNAL_EXPIRY_HOURS

\* C27: a run of generate_signal that found the strategy and its latest
\* backtest, whose backtest passes the gate and whose score and
\* probability meet the thresholds, returns a signal with the symbol,
\* direction and prices of the candidate, the confidence level, risk
\* rating, rationale and position size of the enrichment call, status
\* active and expiry = creation time + expiry horizon.
\* Specification PipeSpec.
C27_QualifiedRunReturnsSignal ==
    (PipeTerminal /\ PlQualified) => PlSignalComplete

\* the claim of C27 on the runs whose signal was stored
C27_WhenStored ==
    (PipeTerminal /\ PlQualified /\ pl_env.store = "ok") => PlSignalComplete

\* the rules add_strategy looked at all hold on the candle
TopLevelRulesHold(strategy, market_data) ==
    /\ ~RulesRaise(strategy.rules, market_data, utc_hour, 1)
    /\ _evaluate_rules(strategy.rules, market_data, utc_hour)

\* C28: every strategy in the active list was admitted on a non-empty
\* top-level rules entry, execute evaluates it on that same rule list, and
\* when it is active and those rules all hold on a closed candle, its
\* evaluation on that candle gives a candidate.  Specification Spec.
C28_AdmittedIsEvaluatedOnItsRules ==
    \A k \in DOMAIN tr_evals :
        LET strategy == active_strategies[tr_evals[k][2]]
            candle_data == tr_delivered[tr_evals[k][1]].tick
        IN /\ Admitted(strategy)
           /\ strategy.config.rules = strategy.rules
           /\ (IsActive(strategy) /\ TopLevelRulesHold(strategy, candle_data))
                 => ~IsNone(execute(strategy, candle_data, utc_hour))

\* what the code does: the candidate depends on the rules under config
C28_CandidateFromConfigRules ==
    \A k \in DOMAIN tr_evals :
        LET strategy == active_strategies[tr_evals[k][2]]
            candle_data == tr_delivered[tr_evals[k][1]].tick
        IN /\ Admitted(strategy)
           /\ (~ExecuteRaises(strategy, candle_data, utc_hour))
                 => (~IsNone(execute(strategy, candle_data, utc_hour))
                       <=> /\ IsActive(strategy)
                           /\ _evaluate_rules(strategy.config.rules, candle_data, utc_hour))

\* C29: any two signals handed to the distributor carry different ids,
\* also two signals of different strategies on one candle and signals of
\* candles processed within one second.  Specification TimedSpec.
C29_DistinctSignalIds ==
    \A a, b \in DOMAIN distributed :
        a # b => distributed[a].id # distributed[b].id

\* C30: whatever connect, disconnect and the heartbeat task do to
\* active_connections while broadcast_signal waits in a send,
\* broadcast_signal ends without raising and has tried to send to every
\* client that was connected when it began.  Specification DistSpec.
C30_BroadcastSurvivesChurn ==
    bc_pc \in {"done", "raised"}
        => /\ bc_pc = "done"
           /\ \A c \in bc_start : \E k \in DOMAIN bc_log : bc_log[k][1] = c

\* the claim of C30 on the broadcasts during which the set stayed as it was
C30_WhenSetUnchanged ==
    (bc_pc \in {"done", "raised"} /\ bc_left = {} /\ ever_connected = bc_start)
        => /\ bc_pc = "done"
           /\ \A c \in bc_start : \E k \in DOMAIN bc_log : bc_log[k][1] = c

============================================================================
